---- MODULE Spec2Model ----
(***************************************************************************)
(* Lithology classification and stratigraphic-unit aggregation pipeline    *)
(* of Earthworm (src/core/analyzer.py): row classifier, unit grouper,      *)
(* interbedding detector and thin-unit merger.                             *)
(*                                                                         *)
(* Numbers.  Gamma and density values and rule bounds are integers in      *)
(* units of 0.05 (20 API = 400, 1.8 g/cc = 36, -999.25 = -19985).  Depths  *)
(* and thicknesses are integers in centimetres (0.2 m = 20).  Percentages  *)
(* are integers in hundredths of a percent (50.00 % = 5000), which is the  *)
(* grid round(x, 2) produces.  Arithmetic is exact; binary floating-point  *)
(* rounding error is not modelled.                                         *)
(***************************************************************************)
EXTENDS Integers, Sequences, FiniteSets, TLC

VARIABLES
    pc,          \* position of the call being modelled
    samples,     \* input sample series: records [depth, gamma, density]
    rules,       \* ordered lithology rule list
    columns,     \* columns of the sample frame the classifier can resolve
    options,     \* options of the last classification call
    classified,  \* LITHOLOGY_CODE column returned by the classifier
    units,       \* unit list (grouper output / detector and merger input)
    params,      \* detector and merger parameters of the call
    candidates,  \* candidates returned by find_interbedding_candidates
    selected,    \* selected candidate indices (1-based here)
    result,      \* units returned by apply / merge / a second grouping
    remerged,    \* units returned by merging result once more
    stages       \* pipeline run: the analyzer calls made so far, in order

vars == <<pc, samples, rules, columns, options, classified, units, params,
          candidates, selected, result, remerged, stages>>

----------------------------------------------------------------------------
(* Bounds of the model                                                    *)

MaxSamples == 2
MaxRules == 2

----------------------------------------------------------------------------
(* Values                                                                 *)

\* config.INVALID_DATA_VALUE = -999.25, in units of 0.05
INVALID_DATA_VALUE == -19985

\* np.nan, which preprocess_data puts in place of null readings.  Every
\* comparison with it is false (see Ge, Le, Lt, Gt).
NaN == -1000000

Ge(a, b) == a # NaN /\ b # NaN /\ a >= b
Le(a, b) == a # NaN /\ b # NaN /\ a <= b
Lt(a, b) == a # NaN /\ b # NaN /\ a < b
Gt(a, b) == a # NaN /\ b # NaN /\ a > b

Abs(x) == IF x < 0 THEN -x ELSE x

RECURSIVE GCD(_, _)
GCD(a, b) == IF b = 0 THEN a ELSE GCD(b, a % b)

\* Sequences over S of length 0..n
SeqUpTo(S, n) == UNION {[1..k -> S] : k \in 0..n}

\* a/b < c/d for a, c >= 0 and b, d > 0, by the Euclidean expansion (no
\* cross product, so the operands stay small)
RECURSIVE FracLt(_, _, _, _)
FracLt(a, b, c, d) ==
    LET qa == a \div b
        qc == c \div d
        ra == a % b
        rc == c % d
    IN  IF qa # qc THEN qa < qc
        ELSE IF rc = 0 THEN FALSE
        ELSE IF ra = 0 THEN TRUE
        ELSE FracLt(d, rc, b, ra)

----------------------------------------------------------------------------
(* Row classifier: Analyzer.classify_rows, classify_rows_simple           *)

\* config.RESEARCHED_LITHOLOGY_DEFAULTS, in dict order
RESEARCHED_LITHOLOGY_DEFAULTS == <<
    [code |-> "CO", gamma_min |-> 0,    gamma_max |-> 400,  density_min |-> 24, density_max |-> 36],
    [code |-> "SS", gamma_min |-> 400,  gamma_max |-> 1200, density_min |-> 48, density_max |-> 54],
    [code |-> "ST", gamma_min |-> 1000, gamma_max |-> 2000, density_min |-> 44, density_max |-> 52],
    [code |-> "SH", gamma_min |-> 1600, gamma_max |-> 3000, density_min |-> 50, density_max |-> 56],
    [code |-> "XM", gamma_min |-> 1200, gamma_max |-> 2400, density_min |-> 40, density_max |-> 46],
    [code |-> "ZM", gamma_min |-> 600,  gamma_max |-> 1600, density_min |-> 34, density_max |-> 42] >>

HasResearchedDefaults(code) ==
    \E k \in DOMAIN RESEARCHED_LITHOLOGY_DEFAULTS : RESEARCHED_LITHOLOGY_DEFAULTS[k].code = code

ResearchedDefaults(code) ==
    RESEARCHED_LITHOLOGY_DEFAULTS[CHOOSE k \in DOMAIN RESEARCHED_LITHOLOGY_DEFAULTS :
                                      RESEARCHED_LITHOLOGY_DEFAULTS[k].code = code]

\* density column resolution: 'density', then 'short_space_density', then
\* 'long_space_density'; "none" when no one resolves
DensityColName(cols) ==
    IF "density" \in cols THEN "density"
    ELSE IF "short_space_density" \in cols THEN "short_space_density"
    ELSE IF "long_space_density" \in cols THEN "long_space_density"
    ELSE "none"

\* CanClassify without the test of the density column
CanClassifyGammaOnly(cols) == "gamma" \in cols

CanClassify(cols) == "gamma" \in cols /\ DensityColName(cols) # "none"

\* classified_df = dataframe.copy(); classified_df[LITHOLOGY_COLUMN] = 'NL'
AllNL(smp) ==
    [i \in DOMAIN smp |-> [depth |-> smp[i].depth, gamma |-> smp[i].gamma,
                           density |-> smp[i].density, LITHOLOGY_CODE |-> "NL"]]

\* df.loc[mask, LITHOLOGY_COLUMN] = code on one row
SetCode(row, code) == [row EXCEPT !.LITHOLOGY_CODE = code]

\* EffectiveRule with the substitution made for don't-care ranges only, not
\* for ranges (0, 0)
EffectiveRuleDontCareOnly(rule, use_researched_defaults) ==
    LET gamma_ignore == rule.gamma_min = INVALID_DATA_VALUE /\ rule.gamma_max = INVALID_DATA_VALUE
        density_ignore == rule.density_min = INVALID_DATA_VALUE /\ rule.density_max = INVALID_DATA_VALUE
        subst == HasResearchedDefaults(rule.code) /\ use_researched_defaults
        gsub == subst /\ gamma_ignore
        dsub == subst /\ density_ignore
    IN  [gamma_min      |-> IF gsub THEN ResearchedDefaults(rule.code).gamma_min ELSE rule.gamma_min,
         gamma_max      |-> IF gsub THEN ResearchedDefaults(rule.code).gamma_max ELSE rule.gamma_max,
         gamma_ignore   |-> IF gsub THEN FALSE ELSE gamma_ignore,
         density_min    |-> IF dsub THEN ResearchedDefaults(rule.code).density_min ELSE rule.density_min,
         density_max    |-> IF dsub THEN ResearchedDefaults(rule.code).density_max ELSE rule.density_max,
         density_ignore |-> IF dsub THEN FALSE ELSE density_ignore]

\* the ranges and don't-care flags a rule is evaluated with, after the
\* researched-defaults substitution
EffectiveRule(rule, use_researched_defaults) ==
    LET gamma_ignore == rule.gamma_min = INVALID_DATA_VALUE /\ rule.gamma_max = INVALID_DATA_VALUE
        density_ignore == rule.density_min = INVALID_DATA_VALUE /\ rule.density_max = INVALID_DATA_VALUE
        subst == HasResearchedDefaults(rule.code) /\ use_researched_defaults
        gamma_missing == gamma_ignore \/ (rule.gamma_min = 0 /\ rule.gamma_max = 0)
        density_missing == density_ignore \/ (rule.density_min = 0 /\ rule.density_max = 0)
        gsub == subst /\ gamma_missing
        dsub == subst /\ density_missing
    IN  [gamma_min      |-> IF gsub THEN ResearchedDefaults(rule.code).gamma_min ELSE rule.gamma_min,
         gamma_max      |-> IF gsub THEN ResearchedDefaults(rule.code).gamma_max ELSE rule.gamma_max,
         gamma_ignore   |-> IF gsub THEN FALSE ELSE gamma_ignore,
         density_min    |-> IF dsub THEN ResearchedDefaults(rule.code).density_min ELSE rule.density_min,
         density_max    |-> IF dsub THEN ResearchedDefaults(rule.code).density_max ELSE rule.density_max,
         density_ignore |-> IF dsub THEN FALSE ELSE density_ignore]

\* RuleMask with a null value taken to lie inside every range
RuleMaskNullInRange(rule, s, use_researched_defaults) ==
    LET e == EffectiveRule(rule, use_researched_defaults)
        gamma_condition == e.gamma_ignore \/ s.gamma = NaN
                           \/ (Ge(s.gamma, e.gamma_min) /\ Le(s.gamma, e.gamma_max))
        density_condition == e.density_ignore \/ s.density = NaN
                             \/ (Ge(s.density, e.density_min) /\ Le(s.density, e.density_max))
    IN  gamma_condition /\ density_condition

\* rule_mask of one row
RuleMask(rule, s, use_researched_defaults) ==
    LET e == EffectiveRule(rule, use_researched_defaults)
        gamma_condition == e.gamma_ignore \/ (Ge(s.gamma, e.gamma_min) /\ Le(s.gamma, e.gamma_max))
        density_condition == e.density_ignore \/ (Ge(s.density, e.density_min) /\ Le(s.density, e.density_max))
    IN  gamma_condition /\ density_condition

\* ApplyRule without the unclassified mask: a later rule overwrites
ApplyRuleOverwrite(df, rule, use_researched_defaults) ==
    IF rule.code = "NL" THEN df
    ELSE [i \in DOMAIN df |->
            IF RuleMask(rule, df[i], use_researched_defaults)
            THEN SetCode(df[i], rule.code) ELSE df[i]]

\* one iteration of the rule loop of classify_rows over the whole frame
ApplyRule(df, rule, use_researched_defaults) ==
    IF rule.code = "NL" THEN df
    ELSE [i \in DOMAIN df |->
            IF df[i].LITHOLOGY_CODE = "NL" /\ RuleMask(rule, df[i], use_researched_defaults)
            THEN SetCode(df[i], rule.code) ELSE df[i]]

RECURSIVE RuleLoop(_, _, _, _)
RuleLoop(df, rls, k, use_researched_defaults) ==
    IF k > Len(rls) THEN df
    ELSE RuleLoop(ApplyRule(df, rls[k], use_researched_defaults),
                  rls, k + 1, use_researched_defaults)

\* squared normalized distance of (gamma_val, density_val) to the centre of
\* a researched default, as a fraction [num, den]
Distance2(gamma_val, density_val, d) ==
    LET a  == Abs(2 * gamma_val - (d.gamma_min + d.gamma_max))
        gr == 2 * (d.gamma_max - d.gamma_min)
        b  == Abs(2 * density_val - (d.density_min + d.density_max))
        dr == 2 * (d.density_max - d.density_min)
        g1 == GCD(a, gr)
        g2 == GCD(b, dr)
        p  == a \div g1
        q  == gr \div g1
        r  == b \div g2
        t  == dr \div g2
    IN  [num |-> p * p * t * t + r * r * q * q, den |-> q * q * t * t]

\* the loop of _get_nearest_lithology; best.code = "None" stands for None
\* with min_distance = inf
RECURSIVE NearestLoop(_, _, _, _)
NearestLoop(gamma_val, density_val, k, best) ==
    IF k > Len(RESEARCHED_LITHOLOGY_DEFAULTS) THEN best
    ELSE LET d == RESEARCHED_LITHOLOGY_DEFAULTS[k]
             ok == d.gamma_max - d.gamma_min > 0 /\ d.density_max - d.density_min > 0
                   /\ gamma_val # NaN /\ density_val # NaN
             dist == Distance2(gamma_val, density_val, d)
             closer == ok /\ (best.code = "None" \/ FracLt(dist.num, dist.den, best.num, best.den))
         IN  NearestLoop(gamma_val, density_val, k + 1,
                         IF closer THEN [code |-> d.code, num |-> dist.num, den |-> dist.den]
                         ELSE best)

\* GetNearestLithology without the limit of 2.0 on the distance
GetNearestLithologyAnyDistance(gamma_val, density_val) ==
    LET best == NearestLoop(gamma_val, density_val, 1, [code |-> "None", num |-> 0, den |-> 1])
    IN  best.code

\* _get_nearest_lithology: the nearest default when within distance 2.0
GetNearestLithology(gamma_val, density_val) ==
    LET best == NearestLoop(gamma_val, density_val, 1, [code |-> "None", num |-> 0, den |-> 1])
    IN  IF best.code # "None" /\ best.num <= 4 * best.den THEN best.code ELSE "None"

\* _apply_extreme_value_rules on one row still 'NL'
ExtremeValueRule(gamma_val, density_val) ==
    IF Lt(density_val, 20) THEN "CO"
    ELSE IF Gt(density_val, 70) THEN "IG"
    ELSE IF Gt(gamma_val, 4000) THEN "SH"
    ELSE IF Lt(gamma_val, 200) /\ Le(40, density_val) /\ Le(density_val, 60)
         THEN (IF Lt(density_val, 54) THEN "SS" ELSE "LS")
    ELSE "NL"

\* ClassifyFallbacks returning only the rows it looked at (those still 'NL')
ClassifyFallbacksOnlyNLRows(df) ==
    LET nl == SelectSeq(df, LAMBDA row : row.LITHOLOGY_CODE = "NL")
    IN  [i \in DOMAIN nl |->
            LET best_match == GetNearestLithology(nl[i].gamma, nl[i].density)
            IN  IF best_match # "None" THEN SetCode(nl[i], best_match)
                ELSE SetCode(nl[i], ExtremeValueRule(nl[i].gamma, nl[i].density))]

\* _classify_fallbacks
ClassifyFallbacks(df) ==
    [i \in DOMAIN df |->
        IF df[i].LITHOLOGY_CODE # "NL" THEN df[i]
        ELSE LET best_match == GetNearestLithology(df[i].gamma, df[i].density)
             IN  IF best_match # "None" THEN SetCode(df[i], best_match)
                 ELSE SetCode(df[i], ExtremeValueRule(df[i].gamma, df[i].density))]

\* Analyzer.classify_rows
ClassifyRows(smp, rls, cols, use_researched_defaults, use_fallback_classification) ==
    IF ~CanClassify(cols) THEN AllNL(smp)
    ELSE LET df == RuleLoop(AllNL(smp), rls, 1, use_researched_defaults)
         IN  IF use_fallback_classification THEN ClassifyFallbacks(df) ELSE df

\* first pass of classify_rows_simple: density only, rows still 'NL'
RECURSIVE DensityPass(_, _, _)
DensityPass(df, rls, k) ==
    IF k > Len(rls) THEN df
    ELSE LET rule == rls[k]
             skip == rule.code = "NL"
                     \/ (rule.density_min = INVALID_DATA_VALUE /\ rule.density_max = INVALID_DATA_VALUE)
             next == [i \in DOMAIN df |->
                        IF df[i].LITHOLOGY_CODE = "NL" /\ Ge(df[i].density, rule.density_min)
                                                       /\ Le(df[i].density, rule.density_max)
                        THEN SetCode(df[i], rule.code) ELSE df[i]]
         IN  DensityPass(IF skip THEN df ELSE next, rls, k + 1)

\* GammaPass restricted to rows still 'NL' (first match, as in pass 1)
RECURSIVE GammaPassUnclassifiedOnly(_, _, _)
GammaPassUnclassifiedOnly(df, rls, k) ==
    IF k > Len(rls) THEN df
    ELSE LET rule == rls[k]
             skip == rule.code = "NL"
                     \/ (rule.gamma_min = INVALID_DATA_VALUE /\ rule.gamma_max = INVALID_DATA_VALUE)
             next == [i \in DOMAIN df |->
                        IF df[i].LITHOLOGY_CODE = "NL" /\ Ge(df[i].gamma, rule.gamma_min)
                                                       /\ Le(df[i].gamma, rule.gamma_max)
                        THEN SetCode(df[i], rule.code) ELSE df[i]]
         IN  GammaPassUnclassifiedOnly(IF skip THEN df ELSE next, rls, k + 1)

\* second pass of classify_rows_simple: gamma only, every row
RECURSIVE GammaPass(_, _, _)
GammaPass(df, rls, k) ==
    IF k > Len(rls) THEN df
    ELSE LET rule == rls[k]
             skip == rule.code = "NL"
                     \/ (rule.gamma_min = INVALID_DATA_VALUE /\ rule.gamma_max = INVALID_DATA_VALUE)
             next == [i \in DOMAIN df |->
                        IF Ge(df[i].gamma, rule.gamma_min) /\ Le(df[i].gamma, rule.gamma_max)
                        THEN SetCode(df[i], rule.code) ELSE df[i]]
         IN  GammaPass(IF skip THEN df ELSE next, rls, k + 1)

\* Analyzer.classify_rows_simple
ClassifyRowsSimple(smp, rls, cols) ==
    IF ~CanClassify(cols) THEN AllNL(smp)
    ELSE GammaPass(DensityPass(AllNL(smp), rls, 1), rls, 1)

----------------------------------------------------------------------------
(* Classifier calls on bounded inputs                                     *)

Rule(code, gmin, gmax, dmin, dmax, qualifier) ==
    [code |-> code, gamma_min |-> gmin, gamma_max |-> gmax,
     density_min |-> dmin, density_max |-> dmax, qualifier |-> qualifier]

\* the 'Not Logged' rule of config.DEFAULT_LITHOLOGY_RULES (-1 = -20)
NLRule == Rule("NL", -20, -20, -20, -20, "")

\* rules of two codes, one with researched defaults (CO) and one without
\* (XX), each channel either don't-care or a range of the code
RuleDomain ==
    {Rule("CO", g[1], g[2], d[1], d[2], "") :
        g \in {<<INVALID_DATA_VALUE, INVALID_DATA_VALUE>>, <<0, 400>>},
        d \in {<<INVALID_DATA_VALUE, INVALID_DATA_VALUE>>, <<24, 40>>}}
    \cup
    {Rule("XX", g[1], g[2], d[1], d[2], "Q") :
        g \in {<<INVALID_DATA_VALUE, INVALID_DATA_VALUE>>, <<200, 1200>>},
        d \in {<<INVALID_DATA_VALUE, INVALID_DATA_VALUE>>, <<30, 60>>}}
    \cup {NLRule}

\* (gamma, density) readings: inside both codes' ranges, inside XX's only,
\* inside CO's only, and null
ReadingDomain == {<<300, 30>>, <<800, 50>>, <<100, 26>>, <<NaN, NaN>>}

\* sample series of up to n readings, 10 cm apart
SampleSeries(n) ==
    {[i \in DOMAIN r |-> [depth |-> 10 * (i - 1), gamma |-> r[i][1], density |-> r[i][2]]] :
        r \in SeqUpTo(ReadingDomain, n)}

ColumnSets == {{"gamma", "density"}, {"gamma", "long_space_density"}, {"density"}, {"gamma"}}

NoOptions == [mode |-> "none"]
NoParams == [op |-> "none"]

InitClassify ==
    /\ pc = "start"
    /\ samples \in SampleSeries(MaxSamples)
    /\ rules \in SeqUpTo(RuleDomain, MaxRules)
    /\ columns = {}
    /\ options = NoOptions
    /\ classified = <<>>
    /\ units = <<>>
    /\ params = NoParams
    /\ candidates = <<>>
    /\ selected = {}
    /\ result = <<>>
    /\ remerged = <<>>
    /\ stages = <<>>

\* a call of classify_rows on a frame with all channels
ClassifyStandard ==
    /\ pc = "start"
    /\ \E rd \in BOOLEAN, fb \in BOOLEAN :
          /\ options' = [mode |-> "standard", use_researched_defaults |-> rd,
                         use_fallback_classification |-> fb]
          /\ columns' = {"gamma", "density"}
          /\ classified' = ClassifyRows(samples, rules, columns', rd, fb)
    /\ pc' = "classified"
    /\ UNCHANGED <<samples, rules, units, params, candidates, selected, result, remerged, stages>>

\* a call of classify_rows_simple on a frame with all channels
ClassifySimple ==
    /\ pc = "start"
    /\ options' = [mode |-> "simple", use_researched_defaults |-> FALSE,
                   use_fallback_classification |-> FALSE]
    /\ columns' = {"gamma", "density"}
    /\ classified' = ClassifyRowsSimple(samples, rules, columns')
    /\ pc' = "classified"
    /\ UNCHANGED <<samples, rules, units, params, candidates, selected, result, remerged, stages>>

\* a call of either classifier on a frame some channel of which is missing
\* or resolved through a secondary density column
ClassifyOtherColumns ==
    /\ pc = "start"
    /\ \E cols \in ColumnSets \ {{"gamma", "density"}}, simple \in BOOLEAN :
          /\ columns' = cols
          /\ options' = [mode |-> IF simple THEN "simple" ELSE "standard",
                         use_researched_defaults |-> FALSE,
                         use_fallback_classification |-> ~simple]
          /\ classified' = IF simple THEN ClassifyRowsSimple(samples, rules, cols)
                           ELSE ClassifyRows(samples, rules, cols, FALSE, TRUE)
    /\ pc' = "classified"
    /\ UNCHANGED <<samples, rules, units, params, candidates, selected, result, remerged, stages>>

NextClassify == ClassifyStandard \/ ClassifySimple \/ ClassifyOtherColumns

SpecClassify == InitClassify /\ [][NextClassify]_vars

----------------------------------------------------------------------------
(* Properties of the classifier                                           *)

SetMin(S) == CHOOSE x \in S : \A y \in S : x <= y
SetMax(S) == CHOOSE x \in S : \A y \in S : x >= y

IsWildcard(lo, hi) == lo = INVALID_DATA_VALUE /\ hi = INVALID_DATA_VALUE
InRange(v, lo, hi) == v # NaN /\ lo <= v /\ v <= hi

Classified == pc = "classified"
Resolved == CanClassify(columns)

\* the codes the fallback step can assign
FallbackCodes == {"CO", "SS", "ST", "SH", "XM", "ZM", "IG", "LS"}

\* rules (by index) a sample matches as the claim C2 words it: on the
\* rule's own bounds
OwnRangeMatches(s) ==
    {k \in DOMAIN rules :
        /\ rules[k].code # "NL"
        /\ IsWildcard(rules[k].gamma_min, rules[k].gamma_max)
              \/ InRange(s.gamma, rules[k].gamma_min, rules[k].gamma_max)
        /\ IsWildcard(rules[k].density_min, rules[k].density_max)
              \/ InRange(s.density, rules[k].density_min, rules[k].density_max)}

\* a channel range is replaced by the built-in one
Substituted(code, lo, hi) ==
    /\ options.use_researched_defaults
    /\ code \in {"CO", "SS", "ST", "SH", "XM", "ZM"}
    /\ IsWildcard(lo, hi) \/ (lo = 0 /\ hi = 0)

\* rules a sample matches on the ranges in force: the built-in range of the
\* rule's code where it is substituted, the rule's own range otherwise
InForceMatches(s) ==
    {k \in DOMAIN rules :
        LET r == rules[k]
        IN  /\ r.code # "NL"
            /\ IF Substituted(r.code, r.gamma_min, r.gamma_max)
               THEN InRange(s.gamma, ResearchedDefaults(r.code).gamma_min,
                                     ResearchedDefaults(r.code).gamma_max)
               ELSE IsWildcard(r.gamma_min, r.gamma_max)
                    \/ InRange(s.gamma, r.gamma_min, r.gamma_max)
            /\ IF Substituted(r.code, r.density_min, r.density_max)
               THEN InRange(s.density, ResearchedDefaults(r.code).density_min,
                                       ResearchedDefaults(r.code).density_max)
               ELSE IsWildcard(r.density_min, r.density_max)
                    \/ InRange(s.density, r.density_min, r.density_max)}

FirstCode(K) == IF K = {} THEN "NL" ELSE rules[SetMin(K)].code
LastCode(K) == IF K = {} THEN "NL" ELSE rules[SetMax(K)].code

\* rules whose (non-wildcard) gamma / density range contains the reading
GammaMatches(s) ==
    {k \in DOMAIN rules : /\ rules[k].code # "NL"
                          /\ ~IsWildcard(rules[k].gamma_min, rules[k].gamma_max)
                          /\ InRange(s.gamma, rules[k].gamma_min, rules[k].gamma_max)}
DensityMatches(s) ==
    {k \in DOMAIN rules : /\ rules[k].code # "NL"
                          /\ ~IsWildcard(rules[k].density_min, rules[k].density_max)
                          /\ InRange(s.density, rules[k].density_min, rules[k].density_max)}

\* no step of the chosen policy assigns sample s a code
NothingAssigns(s) ==
    \/ ~Resolved
    \/ /\ options.mode = "standard"
       /\ InForceMatches(s) = {}
       /\ options.use_fallback_classification =>
              /\ GetNearestLithology(s.gamma, s.density) = "None"
              /\ ExtremeValueRule(s.gamma, s.density) = "NL"
    \/ /\ options.mode = "simple"
       /\ GammaMatches(s) = {}
       /\ DensityMatches(s) = {}

StandardNoFallback ==
    Classified /\ Resolved /\ options.mode = "standard" /\ ~options.use_fallback_classification

\* C2 as stated (rule precedence, standard mode, fallback off): the code of
\* every sample is that of the first non-NL rule it matches, a channel
\* matching iff the rule's own range is wildcard or contains the value; NL
\* when no rule matches.
C2_AsStated ==
    StandardNoFallback =>
        \A i \in DOMAIN samples :
            classified[i].LITHOLOGY_CODE = FirstCode(OwnRangeMatches(samples[i]))

\* C2 amended: the same with each channel tested on the range in force,
\* which is the built-in range of the rule's code when researched defaults
\* are on and the rule's own range is wildcard or (0, 0).
C2_RulePrecedence ==
    StandardNoFallback =>
        \A i \in DOMAIN samples :
            classified[i].LITHOLOGY_CODE = FirstCode(InForceMatches(samples[i]))

\* C2 witness: researched defaults on, a sample matching two rules of
\* different codes keeps the code of the first
C2_Witness ==
    /\ StandardNoFallback
    /\ options.use_researched_defaults
    /\ \E i \in DOMAIN samples : \E k1, k2 \in InForceMatches(samples[i]) :
          /\ k1 < k2
          /\ rules[k1].code # rules[k2].code
          /\ Substituted(rules[k1].code, rules[k1].gamma_min, rules[k1].gamma_max)
          /\ classified[i].LITHOLOGY_CODE = rules[k1].code

SimpleMode == Classified /\ Resolved /\ options.mode = "simple"

\* C3 (simple-mode override): the final code is that of the last rule whose
\* gamma range contains the sample's gamma if there is one, else that of the
\* first rule whose density range contains its density, else NL (NL rule and
\* rules with a wildcard range on the channel skipped).
C3_SimpleOverride ==
    SimpleMode =>
        \A i \in DOMAIN samples :
            classified[i].LITHOLOGY_CODE =
                IF GammaMatches(samples[i]) # {} THEN LastCode(GammaMatches(samples[i]))
                ELSE FirstCode(DensityMatches(samples[i]))

\* C3 witness: a sample classified by density in pass 1 and matched on gamma
\* by two rules of different codes ends with the later gamma rule's code
C3_Witness ==
    /\ SimpleMode
    /\ \E i \in DOMAIN samples : \E k1, k2 \in GammaMatches(samples[i]) :
          /\ k1 < k2
          /\ rules[k1].code # rules[k2].code
          /\ DensityMatches(samples[i]) # {}
          /\ FirstCode(DensityMatches(samples[i])) # rules[k2].code
          /\ classified[i].LITHOLOGY_CODE = rules[k2].code

----------------------------------------------------------------------------
(* Unit grouper: Analyzer.group_into_units, _group_standard_units         *)

\* insertion of index i into a list of indices ordered by key, after the
\* indices whose key is equal
RECURSIVE InsertIndex(_, _, _)
InsertIndex(idx, i, keys) ==
    IF idx = <<>> THEN <<i>>
    ELSE IF keys[i] < keys[Head(idx)] THEN <<i>> \o idx
    ELSE <<Head(idx)>> \o InsertIndex(Tail(idx), i, keys)

\* argsort of the first n keys, ascending.  Equal keys keep their input
\* order, which is what the default argsort does on frames of up to 16 rows
\* (it sorts them by insertion).
RECURSIVE ArgSort(_, _)
ArgSort(keys, n) ==
    IF n = 0 THEN <<>> ELSE InsertIndex(ArgSort(keys, n - 1), n, keys)

\* DataFrame.sort_values(by=...).reset_index(drop=True); keys is the column
\* sorted by
SortValues(df, keys) ==
    LET idx == ArgSort(keys, Len(df)) IN [k \in DOMAIN df |-> df[idx[k]]]

DepthColumn(df) == [i \in DOMAIN df |-> df[i].depth]
FromDepthColumn(us) == [i \in DOMAIN us |-> us[i].from_depth]

\* rules_map = {rule['code']: rule for rule in lithology_rules}.get(code, {}):
\* the last rule of that code, <<>> for {}
RulesMapGet(rls, code) ==
    LET K == {k \in DOMAIN rls : rls[k].code = code}
    IN  IF K = {} THEN <<>> ELSE <<rls[CHOOSE k \in K : \A j \in K : j <= k]>>

\* rule.get('qualifier', '')
QualifierOf(rule) == IF rule = <<>> THEN "" ELSE rule[1].qualifier

\* the unit dictionary started at a row.  Of the display metadata copied
\* from the rule only the qualifier is kept; record_sequence '' is 0.
NewUnit(row, rls) ==
    [from_depth |-> row.depth, to_depth |-> row.depth, thickness |-> 0,
     LITHOLOGY_CODE |-> row.LITHOLOGY_CODE,
     lithology_qualifier |-> QualifierOf(RulesMapGet(rls, row.LITHOLOGY_CODE)),
     record_sequence |-> 0, inter_relationship |-> "", percentage |-> 0]

\* GroupLoop without the comparison with the current unit's code: every
\* row closes the current unit and starts one
RECURSIVE GroupLoopEveryRow(_, _, _, _, _)
GroupLoopEveryRow(sorted_df, rls, i, done, cur) ==
    IF i > Len(sorted_df)
    THEN IF cur = <<>> THEN done
         ELSE Append(done, [cur[1] EXCEPT !.to_depth = sorted_df[Len(sorted_df)].depth])
    ELSE LET row == sorted_df[i]
         IN  IF cur = <<>>
             THEN GroupLoopEveryRow(sorted_df, rls, i + 1, done, <<NewUnit(row, rls)>>)
             ELSE GroupLoopEveryRow(sorted_df, rls, i + 1,
                                    Append(done, [cur[1] EXCEPT !.to_depth = row.depth]),
                                    <<NewUnit(row, rls)>>)

\* GroupLoop closing a unit at the last row of its run: a row of another
\* code leaves the to_depth of the unit it ends as it is
RECURSIVE GroupLoopCloseAtRunEnd(_, _, _, _, _)
GroupLoopCloseAtRunEnd(sorted_df, rls, i, done, cur) ==
    IF i > Len(sorted_df)
    THEN IF cur = <<>> THEN done
         ELSE Append(done, [cur[1] EXCEPT !.to_depth = sorted_df[Len(sorted_df)].depth])
    ELSE LET row == sorted_df[i]
         IN  IF cur = <<>>
             THEN GroupLoopCloseAtRunEnd(sorted_df, rls, i + 1, done, <<NewUnit(row, rls)>>)
             ELSE IF row.LITHOLOGY_CODE = cur[1].LITHOLOGY_CODE
             THEN GroupLoopCloseAtRunEnd(sorted_df, rls, i + 1, done,
                                         <<[cur[1] EXCEPT !.to_depth = row.depth]>>)
             ELSE GroupLoopCloseAtRunEnd(sorted_df, rls, i + 1, Append(done, cur[1]),
                                         <<NewUnit(row, rls)>>)

\* the row loop of _group_standard_units from row i on; cur is <<>> for
\* current_unit = None and <<unit>> otherwise
RECURSIVE GroupLoop(_, _, _, _, _)
GroupLoop(sorted_df, rls, i, done, cur) ==
    IF i > Len(sorted_df)
    THEN IF cur = <<>> THEN done
         ELSE Append(done, [cur[1] EXCEPT !.to_depth = sorted_df[Len(sorted_df)].depth])
    ELSE LET row == sorted_df[i]
         IN  IF cur = <<>>
             THEN GroupLoop(sorted_df, rls, i + 1, done, <<NewUnit(row, rls)>>)
             ELSE IF row.LITHOLOGY_CODE = cur[1].LITHOLOGY_CODE
             THEN GroupLoop(sorted_df, rls, i + 1, done,
                            <<[cur[1] EXCEPT !.to_depth = row.depth]>>)
             ELSE GroupLoop(sorted_df, rls, i + 1,
                            Append(done, [cur[1] EXCEPT !.to_depth = row.depth]),
                            <<NewUnit(row, rls)>>)

\* units_df['thickness'] = units_df['to_depth'] - units_df['from_depth']
WithThickness(us) ==
    [j \in DOMAIN us |-> [us[j] EXCEPT !.thickness = us[j].to_depth - us[j].from_depth]]

\* Analyzer._group_standard_units
GroupStandardUnits(sorted_df, rls) == WithThickness(GroupLoop(sorted_df, rls, 1, <<>>, <<>>))

\* Analyzer.group_into_units on a frame with both required columns
GroupIntoUnits(df, rls) == GroupStandardUnits(SortValues(df, DepthColumn(df)), rls)

----------------------------------------------------------------------------
(* Grouper calls on bounded inputs                                        *)

MaxRows == 4

DepthDomain == {0, 50, 100, 150}
CodeDomain == {"CO", "SS"}

\* classified frames of up to n rows, in any depth order
ClassifiedFrames(n) ==
    {[i \in DOMAIN r |-> [depth |-> r[i][1], gamma |-> NaN, density |-> NaN,
                          LITHOLOGY_CODE |-> r[i][2]]] :
        r \in SeqUpTo(DepthDomain \X CodeDomain, n)}

\* rule lists for the metadata lookup: none, one rule per code met, two
\* rules of one code and none for the other
GroupRuleLists ==
    {<<>>,
     <<Rule("CO", 0, 400, 0, 36, "A"), Rule("SS", 400, 1200, 40, 54, "B"), NLRule>>,
     <<Rule("CO", 0, 400, 0, 36, "A"), Rule("CO", 0, 400, 0, 36, "B")>>}

InitGroup ==
    /\ pc = "classified"
    /\ samples = <<>>
    /\ rules \in GroupRuleLists
    /\ columns = {}
    /\ options = NoOptions
    /\ classified \in ClassifiedFrames(MaxRows)
    /\ units = <<>>
    /\ params = NoParams
    /\ candidates = <<>>
    /\ selected = {}
    /\ result = <<>>
    /\ remerged = <<>>
    /\ stages = <<>>

\* a call of group_into_units on a frame with both required columns
Group ==
    /\ pc = "classified"
    /\ columns' = {"DEPT", "LITHOLOGY_CODE"}
    /\ units' = GroupIntoUnits(classified, rules)
    /\ pc' = "grouped"
    /\ UNCHANGED <<samples, rules, options, classified, params, candidates, selected, result, remerged, stages>>

\* a call of group_into_units on a frame without the depth or the
\* lithology column: ValueError, no units
GroupMissingField ==
    /\ pc = "classified"
    /\ columns' \in {{"DEPT"}, {"LITHOLOGY_CODE"}}
    /\ pc' = "ValueError"
    /\ UNCHANGED <<samples, rules, options, classified, units, params, candidates, selected, result, remerged, stages>>

NextGroup == Group \/ GroupMissingField

SpecGroup == InitGroup /\ [][NextGroup]_vars

----------------------------------------------------------------------------
(* Properties of the grouper                                              *)

Grouped == pc = "grouped"

\* the depth-sorted series the grouper walks
SortedFrame == SortValues(classified, DepthColumn(classified))

IsDepthSorted(df) == \A i \in 1..(Len(df) - 1) : df[i].depth <= df[i + 1].depth

\* positions of series sf where the code differs from the previous
\* sample's code
CodeChanges(sf) ==
    {i \in 2..Len(sf) : sf[i].LITHOLOGY_CODE # sf[i - 1].LITHOLOGY_CODE}

\* the maximal runs of equal codes of series sf, in order, each as the
\* positions [first, last] it spans
RECURSIVE RunsFrom(_, _, _)
RunsFrom(sf, i, acc) ==
    IF i > Len(sf) THEN acc
    ELSE IF i = 1 \/ i \in CodeChanges(sf)
    THEN RunsFrom(sf, i + 1, Append(acc, [first |-> i, last |-> i]))
    ELSE RunsFrom(sf, i + 1, [acc EXCEPT ![Len(acc)].last = i])

Runs(sf) == RunsFrom(sf, 1, <<>>)

\* C4 (unit boundaries): on a depth-sorted series each unit has from_depth
\* the depth of the first sample of its run, to_depth the depth of the last
\* sample of that same run, and thickness to_depth - from_depth.
C4_AsStated ==
    (Grouped /\ IsDepthSorted(classified)) =>
        LET sf == SortedFrame
            runs == Runs(sf)
        IN  /\ Len(units) = Len(runs)
            /\ \A j \in DOMAIN units :
                  /\ units[j].from_depth = sf[runs[j].first].depth
                  /\ units[j].to_depth = sf[runs[j].last].depth
                  /\ units[j].thickness = units[j].to_depth - units[j].from_depth

\* C5 (maximal runs): a unit starts exactly at the first sample and at every
\* position of the depth-sorted series whose code differs from the previous
\* one; so consecutive units differ in code, there are 1 + (number of code
\* changes) units, and every sample position lies in the run of exactly one
\* unit, which carries its code.
C5_MaximalRuns ==
    Grouped =>
        LET sf == SortedFrame
            runs == Runs(sf)
        IN  /\ Len(units) = Len(runs)
            /\ classified # <<>> => Len(units) = 1 + Cardinality(CodeChanges(sf))
            /\ \A j \in DOMAIN units :
                  /\ units[j].from_depth = sf[runs[j].first].depth
                  /\ units[j].LITHOLOGY_CODE = sf[runs[j].first].LITHOLOGY_CODE
                  /\ j > 1 => units[j].LITHOLOGY_CODE # units[j - 1].LITHOLOGY_CODE
            /\ \A i \in DOMAIN sf :
                  LET In == {j \in DOMAIN units : runs[j].first <= i /\ i <= runs[j].last}
                  IN  /\ Cardinality(In) = 1
                      /\ \A j \in In : /\ units[j].LITHOLOGY_CODE = sf[i].LITHOLOGY_CODE
                                       /\ units[j].from_depth <= sf[i].depth
                                       /\ sf[i].depth <= units[j].to_depth

\* C5 witness: a series given out of depth order whose sorted form has a run
\* of two samples and two code changes is grouped into three units
C5_Witness ==
    /\ Grouped
    /\ ~IsDepthSorted(classified)
    /\ Len(classified) = 4
    /\ Cardinality(CodeChanges(SortedFrame)) = 2
    /\ Len(units) = 3

----------------------------------------------------------------------------
(* Thin-unit merger: Analyzer.merge_thin_units                            *)

\* config.DEFAULT_MERGE_THRESHOLD = 0.05 m
DEFAULT_MERGE_THRESHOLD == 5

SameLithology(a, b) ==
    /\ a.LITHOLOGY_CODE = b.LITHOLOGY_CODE
    /\ a.lithology_qualifier = b.lithology_qualifier

\* Absorb whose thickness is not recomputed after a merge
RECURSIVE AbsorbStaleThickness(_, _, _, _)
AbsorbStaleThickness(merged_units, threshold, i, current_unit) ==
    IF current_unit.thickness < threshold /\ i + 1 <= Len(merged_units)
       /\ SameLithology(current_unit, merged_units[i + 1])
    THEN AbsorbStaleThickness(merged_units, threshold, i + 1,
                              [current_unit EXCEPT !.to_depth = merged_units[i + 1].to_depth])
    ELSE [unit |-> current_unit, i |-> i]

\* Absorb with an if in place of the inner while: at most one unit absorbed
AbsorbOnce(merged_units, threshold, i, current_unit) ==
    IF current_unit.thickness < threshold /\ i + 1 <= Len(merged_units)
       /\ SameLithology(current_unit, merged_units[i + 1])
    THEN [unit |-> [current_unit EXCEPT
                       !.to_depth = merged_units[i + 1].to_depth,
                       !.thickness = merged_units[i + 1].to_depth - current_unit.from_depth],
          i |-> i + 1]
    ELSE [unit |-> current_unit, i |-> i]

\* the inner while loop: current_unit, started at unit i of merged_units,
\* absorbs the following units; returns the unit and the index i reached
RECURSIVE Absorb(_, _, _, _)
Absorb(merged_units, threshold, i, current_unit) ==
    IF current_unit.thickness < threshold /\ i + 1 <= Len(merged_units)
       /\ SameLithology(current_unit, merged_units[i + 1])
    THEN LET next_unit == merged_units[i + 1]
         IN  Absorb(merged_units, threshold, i + 1,
                    [current_unit EXCEPT !.to_depth = next_unit.to_depth,
                                         !.thickness = next_unit.to_depth - current_unit.from_depth])
    ELSE [unit |-> current_unit, i |-> i]

\* MergeLoop without the skip of the absorbed units: the pass goes on with
\* the unit after the one it began with
RECURSIVE MergeLoopKeepsAbsorbed(_, _, _, _)
MergeLoopKeepsAbsorbed(merged_units, threshold, i, final_units) ==
    IF i > Len(merged_units) THEN final_units
    ELSE LET a == Absorb(merged_units, threshold, i, merged_units[i])
         IN  MergeLoopKeepsAbsorbed(merged_units, threshold, i + 1, Append(final_units, a.unit))

\* MergeLoop looking back: a thin unit of the lithology of the unit
\* emitted last is added to that unit
RECURSIVE MergeLoopLookBack(_, _, _, _)
MergeLoopLookBack(merged_units, threshold, i, final_units) ==
    IF i > Len(merged_units) THEN final_units
    ELSE LET a == Absorb(merged_units, threshold, i, merged_units[i])
             n == Len(final_units)
         IN  IF n > 0 /\ a.unit.thickness < threshold /\ SameLithology(final_units[n], a.unit)
             THEN MergeLoopLookBack(merged_units, threshold, a.i + 1,
                                    [final_units EXCEPT
                                        ![n].to_depth = a.unit.to_depth,
                                        ![n].thickness = a.unit.to_depth - final_units[n].from_depth])
             ELSE MergeLoopLookBack(merged_units, threshold, a.i + 1,
                                    Append(final_units, a.unit))

\* the outer while loop from unit i on
RECURSIVE MergeLoop(_, _, _, _)
MergeLoop(merged_units, threshold, i, final_units) ==
    IF i > Len(merged_units) THEN final_units
    ELSE LET a == Absorb(merged_units, threshold, i, merged_units[i])
         IN  MergeLoop(merged_units, threshold, a.i + 1, Append(final_units, a.unit))

\* Analyzer.merge_thin_units
MergeThinUnits(units_df, threshold) ==
    IF Len(units_df) <= 1 THEN units_df
    ELSE MergeLoop(SortValues(units_df, FromDepthColumn(units_df)), threshold, 1, <<>>)

----------------------------------------------------------------------------
(* Merger calls on bounded inputs                                         *)

MaxUnits == 3

ThicknessDomain == {0, 1, 3, 6}
LithologyDomain == {<<"SS", "">>, <<"SS", "Q">>, <<"SH", "">>}
ThresholdDomain == {2, DEFAULT_MERGE_THRESHOLD}

Unit(from_depth, thickness, code, qualifier) ==
    [from_depth |-> from_depth, to_depth |-> from_depth + thickness, thickness |-> thickness,
     LITHOLOGY_CODE |-> code, lithology_qualifier |-> qualifier,
     record_sequence |-> 0, inter_relationship |-> "", percentage |-> 0]

\* the units of thicknesses th and lithologies li laid end to end from
\* depth 0
RECURSIVE Tiling(_, _, _)
Tiling(th, li, from_depth) ==
    IF th = <<>> THEN <<>>
    ELSE <<Unit(from_depth, Head(th), Head(li)[1], Head(li)[2])>>
         \o Tiling(Tail(th), Tail(li), from_depth + Head(th))

Reverse(s) == [i \in DOMAIN s |-> s[Len(s) + 1 - i]]

\* unit lists of up to n units that tile an interval, in depth order or in
\* reverse order
UnitLists(n, Thicknesses, Lithologies) ==
    LET tiled == UNION {{Tiling(th, li, 0) : th \in [1..k -> Thicknesses],
                                           li \in [1..k -> Lithologies]} : k \in 0..n}
    IN  tiled \cup {Reverse(us) : us \in tiled}

InitMerge ==
    /\ pc = "grouped"
    /\ samples = <<>>
    /\ rules = <<>>
    /\ columns = {}
    /\ options = NoOptions
    /\ classified = <<>>
    /\ units \in UnitLists(MaxUnits, ThicknessDomain, LithologyDomain)
    /\ params = NoParams
    /\ candidates = <<>>
    /\ selected = {}
    /\ result = <<>>
    /\ remerged = <<>>
    /\ stages = <<>>

\* a call of merge_thin_units on the unit list
Merge ==
    /\ pc = "grouped"
    /\ \E threshold \in ThresholdDomain :
          /\ params' = [op |-> "merge", threshold |-> threshold]
          /\ result' = MergeThinUnits(units, threshold)
    /\ pc' = "merged"
    /\ UNCHANGED <<samples, rules, columns, options, classified, units, candidates, selected, remerged, stages>>

\* a second call of merge_thin_units, on the result of the first and with
\* the same threshold
MergeAgain ==
    /\ pc = "merged"
    /\ remerged' = MergeThinUnits(result, params.threshold)
    /\ pc' = "remerged"
    /\ UNCHANGED <<samples, rules, columns, options, classified, units, params,
                   candidates, selected, result, stages>>

NextMerge == Merge \/ MergeAgain

SpecMerge == InitMerge /\ [][NextMerge]_vars

----------------------------------------------------------------------------
(* Properties of the merger                                               *)

Merged == pc \in {"merged", "remerged"}

\* thickness of the unit begun at unit a of su once it reaches to unit b
RunningThickness(su, a, b) ==
    IF b = a THEN su[a].thickness ELSE su[b].to_depth - su[a].from_depth

\* the last unit the unit begun at su[a] absorbs: every unit after a up to
\* it has the lithology of su[a] and is met with a running thickness < t
LastAbsorbed(su, t, a) ==
    LET Ok == {b \in a..Len(su) :
                 \A m \in (a + 1)..b : /\ SameLithology(su[a], su[m])
                                       /\ RunningThickness(su, a, m - 1) < t}
    IN  SetMax(Ok)

\* the positions of su at which the single left-to-right pass begins an
\* output unit
PassStarts(su, t) ==
    CHOOSE S \in SUBSET DOMAIN su :
        /\ su # <<>> => 1 \in S
        /\ \A a \in S : LastAbsorbed(su, t, a) < Len(su) => LastAbsorbed(su, t, a) + 1 \in S
        /\ \A a \in S \ {1} : \E p \in S : LastAbsorbed(su, t, p) + 1 = a

\* C6 (merge algorithm): merge returns a list of <= 1 unit unchanged;
\* otherwise, over the units sorted by from_depth, each output unit is a
\* current unit that absorbed the next units while its extended thickness
\* was < threshold and the next unit had its (code, qualifier); it keeps the
\* first unit's from_depth and metadata, ends at the last absorbed unit's
\* to_depth and has thickness to_depth - from_depth.
C6_MergeAlgorithm ==
    Merged =>
        IF Len(units) <= 1 THEN result = units
        ELSE LET su == SortValues(units, FromDepthColumn(units))
                 t == params.threshold
                 starts == PassStarts(su, t)
             IN  /\ Len(result) = Cardinality(starts)
                 /\ \A k \in DOMAIN result :
                       LET a == CHOOSE x \in starts : Cardinality({y \in starts : y <= x}) = k
                           b == LastAbsorbed(su, t, a)
                       IN  result[k] = [su[a] EXCEPT
                                           !.to_depth = su[b].to_depth,
                                           !.thickness = su[b].to_depth - su[a].from_depth]

\* C6 witness: SS [0, 0.03] and SS [0.03, 0.04] merged at threshold 0.05
\* give the single unit [0, 0.04]
C6_Witness ==
    /\ pc = "merged"
    /\ params.threshold = 5
    /\ units = <<Unit(0, 3, "SS", ""), Unit(3, 1, "SS", "")>>
    /\ result = <<Unit(0, 4, "SS", "")>>

----------------------------------------------------------------------------
(* Interbedding detector: Analyzer.find_interbedding_candidates,          *)
(* _find_interbedding_candidate, _extract_alternating_sequence            *)

\* safety limit on scan iterations in find_interbedding_candidates
ScanLimit == 1000

MinOf(a, b) == IF a < b THEN a ELSE b

\* ExtractLoop without the comparison with the previous unit's code: a unit
\* of the same code is taken like any other
RECURSIVE ExtractLoopAnyCode(_, _, _, _, _, _)
ExtractLoopAnyCode(units_df, i, stop, max_sequence_length, thick_unit_threshold, sequence) ==
    IF i >= stop THEN sequence
    ELSE LET unit == units_df[i]
         IN  IF unit.thickness > thick_unit_threshold THEN sequence
             ELSE IF Len(sequence) + 1 >= max_sequence_length THEN Append(sequence, unit)
             ELSE ExtractLoopAnyCode(units_df, i + 1, stop, max_sequence_length,
                                     thick_unit_threshold, Append(sequence, unit))

\* the for loop of _extract_alternating_sequence at unit i (1-based), with
\* the units taken so far; stop is the exclusive end of the range
RECURSIVE ExtractLoop(_, _, _, _, _, _)
ExtractLoop(units_df, i, stop, max_sequence_length, thick_unit_threshold, sequence) ==
    IF i >= stop THEN sequence
    ELSE LET unit == units_df[i]
         IN  IF unit.thickness > thick_unit_threshold THEN sequence
             ELSE IF sequence # <<>>
                     /\ unit.LITHOLOGY_CODE = sequence[Len(sequence)].LITHOLOGY_CODE
             THEN sequence
             ELSE IF Len(sequence) + 1 >= max_sequence_length THEN Append(sequence, unit)
             ELSE ExtractLoop(units_df, i + 1, stop, max_sequence_length,
                              thick_unit_threshold, Append(sequence, unit))

\* Analyzer._extract_alternating_sequence
ExtractAlternatingSequence(units_df, start_idx, max_sequence_length, thick_unit_threshold) ==
    IF start_idx > Len(units_df) THEN <<>>
    ELSE ExtractLoop(units_df, start_idx,
                     MinOf(start_idx + max_sequence_length, Len(units_df) + 1),
                     max_sequence_length, thick_unit_threshold, <<>>)

\* total_thickness = sum(unit['thickness'] for unit in sequence)
RECURSIVE TotalThickness(_)
TotalThickness(sequence) ==
    IF sequence = <<>> THEN 0 ELSE Head(sequence).thickness + TotalThickness(Tail(sequence))

\* InterCode without the class UB: IL up to 0.06 m
InterCodeWithoutUB(total, n) ==
    IF total < 6 * n THEN "IL"
    ELSE IF total < 20 * n THEN "TB"
    ELSE "CB"

\* the interrelationship code of an average layer thickness total / n
\* (0.02 m = 2, 0.06 m = 6, 0.2 m = 20)
InterCode(total, n) ==
    IF total < 2 * n THEN "IL"
    ELSE IF total < 6 * n THEN "UB"
    ELSE IF total < 20 * n THEN "TB"
    ELSE "CB"

\* lithology_thicknesses: the (code, thickness) items of the dictionary, in
\* order of first encounter
RECURSIVE LithologyThicknesses(_, _)
LithologyThicknesses(sequence, items) ==
    IF sequence = <<>> THEN items
    ELSE LET unit == Head(sequence)
             K == {k \in DOMAIN items : items[k].code = unit.LITHOLOGY_CODE}
         IN  LithologyThicknesses(Tail(sequence),
                 IF K = {}
                 THEN Append(items, [code |-> unit.LITHOLOGY_CODE, thickness |-> unit.thickness])
                 ELSE [k \in DOMAIN items |->
                         IF k \in K THEN [items[k] EXCEPT !.thickness = @ + unit.thickness]
                         ELSE items[k]])

\* InsertDescending with an item placed before the items of equal
\* thickness
RECURSIVE InsertDescendingTiesFirst(_, _)
InsertDescendingTiesFirst(sorted, x) ==
    IF sorted = <<>> THEN <<x>>
    ELSE IF x.thickness >= Head(sorted).thickness THEN <<x>> \o sorted
    ELSE <<Head(sorted)>> \o InsertDescendingTiesFirst(Tail(sorted), x)

\* sorted(items, key=thickness, reverse=True): descending, equal keys in
\* input order
RECURSIVE InsertDescending(_, _)
InsertDescending(sorted, x) ==
    IF sorted = <<>> THEN <<x>>
    ELSE IF x.thickness > Head(sorted).thickness THEN <<x>> \o sorted
    ELSE <<Head(sorted)>> \o InsertDescending(Tail(sorted), x)

RECURSIVE SortedLithologies(_)
SortedLithologies(items) ==
    IF items = <<>> THEN <<>>
    ELSE InsertDescending(SortedLithologies(SubSeq(items, 1, Len(items) - 1)), items[Len(items)])

\* round(n / d, 0) for n >= 0, d > 0, halves to even
RoundHalfEven(n, d) ==
    LET q == n \div d
        r == n % d
    IN  IF 2 * r < d THEN q
        ELSE IF 2 * r > d THEN q + 1
        ELSE IF q % 2 = 0 THEN q ELSE q + 1

\* round((thickness / total_thickness) * 100, 2) in hundredths of a
\* percent; NaN for 0.0 / 0.0 on floats that do not raise
Percentage(thickness, total_thickness) ==
    IF total_thickness = 0 THEN NaN ELSE RoundHalfEven(thickness * 10000, total_thickness)

\* percentage < 5 on the unrounded value
BelowFivePercent(thickness, total_thickness) ==
    total_thickness # 0 /\ thickness * 100 < 5 * total_thickness

\* the component list: ranked by thickness, non-dominant components under
\* 5 % skipped
RECURSIVE Components(_, _, _)
Components(sorted_lithologies, seq_num, total_thickness) ==
    IF seq_num > Len(sorted_lithologies) THEN <<>>
    ELSE LET item == sorted_lithologies[seq_num]
             rest == Components(sorted_lithologies, seq_num + 1, total_thickness)
         IN  IF seq_num > 1 /\ BelowFivePercent(item.thickness, total_thickness) THEN rest
             ELSE <<[code |-> item.code, thickness |-> item.thickness,
                     percentage |-> Percentage(item.thickness, total_thickness),
                     sequence |-> seq_num]>> \o rest

NoCandidate == [kind |-> "None"]

\* FindInterbeddingCandidate trying the shorter prefixes of the extracted
\* run when the run itself gives nothing
FindInterbeddingCandidateAnyPrefix(units_df, start_idx, max_sequence_length, thick_unit_threshold, native_floats) ==
    LET extracted == ExtractAlternatingSequence(units_df, start_idx, max_sequence_length,
                                                thick_unit_threshold)
        Evaluate(sequence) ==
            LET total_thickness == TotalThickness(sequence)
                n == Len(sequence)
                lithologies == Components(SortedLithologies(LithologyThicknesses(sequence, <<>>)),
                                          1, total_thickness)
            IN  IF n < 3 THEN NoCandidate
                ELSE IF total_thickness >= 20 * n THEN NoCandidate
                ELSE IF total_thickness = 0 /\ native_floats THEN [kind |-> "ZeroDivisionError"]
                ELSE IF Len(lithologies) < 2 THEN NoCandidate
                ELSE [kind |-> "candidate",
                      from_depth |-> sequence[1].from_depth,
                      to_depth |-> sequence[n].to_depth,
                      original_sequence |-> sequence,
                      lithologies |-> lithologies,
                      average_layer_thickness |-> <<total_thickness, n>>,
                      interrelationship_code |-> InterCode(total_thickness, n),
                      total_thickness |-> total_thickness]
        Good == {m \in 3..Len(extracted) : Evaluate(SubSeq(extracted, 1, m)) # NoCandidate}
    IN  IF start_idx > Len(units_df) \/ Good = {} THEN NoCandidate
        ELSE Evaluate(SubSeq(extracted, 1, CHOOSE m \in Good : \A k \in Good : k <= m))

\* FindInterbeddingCandidate without the return for an average layer
\* thickness of 0.2 m or more
FindInterbeddingCandidateAnyMean(units_df, start_idx, max_sequence_length, thick_unit_threshold, native_floats) ==
    LET sequence == ExtractAlternatingSequence(units_df, start_idx, max_sequence_length,
                                               thick_unit_threshold)
        total_thickness == TotalThickness(sequence)
        n == Len(sequence)
        lithologies == Components(SortedLithologies(LithologyThicknesses(sequence, <<>>)),
                                  1, total_thickness)
    IN  IF start_idx > Len(units_df) THEN NoCandidate
        ELSE IF n < 3 THEN NoCandidate
        ELSE IF total_thickness = 0 /\ native_floats THEN [kind |-> "ZeroDivisionError"]
        ELSE IF Len(lithologies) < 2 THEN NoCandidate
        ELSE [kind |-> "candidate",
              from_depth |-> sequence[1].from_depth,
              to_depth |-> sequence[n].to_depth,
              original_sequence |-> sequence,
              lithologies |-> lithologies,
              average_layer_thickness |-> <<total_thickness, n>>,
              interrelationship_code |-> InterCode(total_thickness, n),
              total_thickness |-> total_thickness]

\* Analyzer._find_interbedding_candidate.  native_floats says whether the
\* thicknesses read from the frame are Python floats, on which 0.0 / 0.0
\* raises ZeroDivisionError, or NumPy floats, on which it is nan.
FindInterbeddingCandidate(units_df, start_idx, max_sequence_length, thick_unit_threshold, native_floats) ==
    LET sequence == ExtractAlternatingSequence(units_df, start_idx, max_sequence_length,
                                               thick_unit_threshold)
        total_thickness == TotalThickness(sequence)
        n == Len(sequence)
        lithologies == Components(SortedLithologies(LithologyThicknesses(sequence, <<>>)),
                                  1, total_thickness)
    IN  IF start_idx > Len(units_df) THEN NoCandidate
        ELSE IF n < 3 THEN NoCandidate
        ELSE IF total_thickness >= 20 * n THEN NoCandidate
        ELSE IF total_thickness = 0 /\ native_floats THEN [kind |-> "ZeroDivisionError"]
        ELSE IF Len(lithologies) < 2 THEN NoCandidate
        ELSE [kind |-> "candidate",
              from_depth |-> sequence[1].from_depth,
              to_depth |-> sequence[n].to_depth,
              original_sequence |-> sequence,
              lithologies |-> lithologies,
              average_layer_thickness |-> <<total_thickness, n>>,
              interrelationship_code |-> InterCode(total_thickness, n),
              total_thickness |-> total_thickness]

\* ScanLoop advancing by one unit after an accepted candidate too
RECURSIVE ScanLoopStepOne(_, _, _, _, _, _, _)
ScanLoopStepOne(units_df, i, total_iterations, max_sequence_length, thick_unit_threshold, native_floats, found) ==
    IF ~(i <= Len(units_df) /\ total_iterations < ScanLimit) THEN found
    ELSE LET candidate == FindInterbeddingCandidate(units_df, i, max_sequence_length,
                                                    thick_unit_threshold, native_floats)
         IN  IF candidate.kind = "ZeroDivisionError" THEN <<candidate>>
             ELSE ScanLoopStepOne(units_df, i + 1, total_iterations + 1,
                                  max_sequence_length, thick_unit_threshold, native_floats,
                                  IF candidate.kind = "candidate" THEN Append(found, candidate)
                                  ELSE found)

\* the scan loop of find_interbedding_candidates at index i (1-based);
\* returns the candidate list, or a list holding the exception when a
\* position raises
RECURSIVE ScanLoop(_, _, _, _, _, _, _)
ScanLoop(units_df, i, total_iterations, max_sequence_length, thick_unit_threshold, native_floats, found) ==
    IF ~(i <= Len(units_df) /\ total_iterations < ScanLimit) THEN found
    ELSE LET candidate == FindInterbeddingCandidate(units_df, i, max_sequence_length,
                                                    thick_unit_threshold, native_floats)
         IN  IF candidate.kind = "ZeroDivisionError" THEN <<candidate>>
             ELSE IF candidate.kind = "candidate"
             THEN ScanLoop(units_df, i + Len(candidate.original_sequence), total_iterations + 1,
                           max_sequence_length, thick_unit_threshold, native_floats,
                           Append(found, candidate))
             ELSE ScanLoop(units_df, i + 1, total_iterations + 1,
                           max_sequence_length, thick_unit_threshold, native_floats, found)

\* Analyzer.find_interbedding_candidates
FindInterbeddingCandidates(units_df, max_sequence_length, thick_unit_threshold, native_floats) ==
    IF Len(units_df) <= 1 THEN <<>>
    ELSE ScanLoop(units_df, 1, 0, max_sequence_length, thick_unit_threshold, native_floats, <<>>)

\* the values of i at which the scan loop appends a candidate, in order
RECURSIVE ScanStarts(_, _, _, _, _, _, _)
ScanStarts(units_df, i, total_iterations, max_sequence_length, thick_unit_threshold, native_floats, starts) ==
    IF ~(i <= Len(units_df) /\ total_iterations < ScanLimit) THEN starts
    ELSE LET candidate == FindInterbeddingCandidate(units_df, i, max_sequence_length,
                                                    thick_unit_threshold, native_floats)
         IN  IF candidate.kind = "ZeroDivisionError" THEN starts
             ELSE IF candidate.kind = "candidate"
             THEN ScanStarts(units_df, i + Len(candidate.original_sequence), total_iterations + 1,
                             max_sequence_length, thick_unit_threshold, native_floats,
                             Append(starts, i))
             ELSE ScanStarts(units_df, i + 1, total_iterations + 1,
                             max_sequence_length, thick_unit_threshold, native_floats, starts)

\* the scan ended in an exception
Raised(found) == found # <<>> /\ found[1].kind = "ZeroDivisionError"

----------------------------------------------------------------------------
(* Application: Analyzer.apply_interbedding_candidates                    *)

\* the first while loop: units before the candidate are kept
RECURSIVE KeepBefore(_, _, _, _)
KeepBefore(units_df, candidate_start_depth, units_processed, updated_units) ==
    IF units_processed <= Len(units_df)
       /\ ~(units_df[units_processed].from_depth >= candidate_start_depth)
    THEN KeepBefore(units_df, candidate_start_depth, units_processed + 1,
                    Append(updated_units, units_df[units_processed]))
    ELSE [updated_units |-> updated_units, units_processed |-> units_processed]

\* the second while loop: units ending within the candidate are skipped
RECURSIVE SkipReplaced(_, _, _)
SkipReplaced(units_df, candidate_end_depth, units_processed) ==
    IF units_processed <= Len(units_df)
       /\ ~(units_df[units_processed].to_depth > candidate_end_depth)
    THEN SkipReplaced(units_df, candidate_end_depth, units_processed + 1)
    ELSE units_processed

\* the interbedded unit emitted for one component of a candidate
InterbeddedUnit(candidate, lithology, rls) ==
    [from_depth |-> candidate.from_depth,
     to_depth |-> candidate.to_depth,
     thickness |-> candidate.to_depth - candidate.from_depth,
     LITHOLOGY_CODE |-> lithology.code,
     lithology_qualifier |-> QualifierOf(RulesMapGet(rls, lithology.code)),
     record_sequence |-> lithology.sequence,
     inter_relationship |-> IF lithology.sequence = 1 THEN candidate.interrelationship_code
                            ELSE "",
     percentage |-> lithology.percentage]

InterbeddedUnits(candidate, rls) ==
    [k \in DOMAIN candidate.lithologies |-> InterbeddedUnit(candidate, candidate.lithologies[k], rls)]

\* the loop over candidates_to_apply, then the remaining units
RECURSIVE ApplyLoop(_, _, _, _, _)
ApplyLoop(units_df, candidates_to_apply, rls, units_processed, updated_units) ==
    IF candidates_to_apply = <<>>
    THEN updated_units \o SubSeq(units_df, units_processed, Len(units_df))
    ELSE LET candidate == Head(candidates_to_apply)
             kept == KeepBefore(units_df, candidate.from_depth, units_processed, updated_units)
         IN  ApplyLoop(units_df, Tail(candidates_to_apply), rls,
                       SkipReplaced(units_df, candidate.to_depth, kept.units_processed),
                       kept.updated_units \o InterbeddedUnits(candidate, rls))

\* [candidates[idx] for idx in sorted(selected_indices)]
RECURSIVE CandidatesToApply(_, _, _)
CandidatesToApply(cands, selected_indices, idx) ==
    IF idx > Len(cands) THEN <<>>
    ELSE (IF idx \in selected_indices THEN <<cands[idx]>> ELSE <<>>)
         \o CandidatesToApply(cands, selected_indices, idx + 1)

\* Analyzer.apply_interbedding_candidates; indices are 1-based here
ApplyInterbeddingCandidates(units_df, cands, selected_indices, rls) ==
    IF selected_indices = {} THEN units_df
    ELSE ApplyLoop(units_df, CandidatesToApply(cands, selected_indices, 1), rls, 1, <<>>)

----------------------------------------------------------------------------
(* Detector calls on bounded inputs                                       *)

MaxDetectUnits == 4

DetectThicknessDomain == {0, 1, 10, 30}
DetectLithologyDomain == {<<"SS", "">>, <<"SH", "">>, <<"CO", "">>}

\* the (thickness, lithology) pairs of the units: SS of every thickness,
\* SH of every thickness but the largest, CO of 0.10 m
DetectUnitKinds ==
    {kind \in DetectThicknessDomain \X DetectLithologyDomain :
        \/ kind[2][1] = "SS"
        \/ kind[2][1] = "SH" /\ kind[1] # 30
        \/ kind[2][1] = "CO" /\ kind[1] = 10}

\* (max_sequence_length, thick_unit_threshold): the defaults 10 and 0.5 m,
\* and a short sequence limit with a low thickness limit
DetectParams == {<<10, 50>>, <<3, 5>>}

\* rules for the metadata lookup of apply: none for SH
DetectRules == <<Rule("CO", 0, 400, 0, 36, "A"), Rule("SS", 400, 1200, 40, 54, "B"), NLRule>>

\* the unit list is any list of up to MaxDetectUnits units that tile an
\* interval, in depth order
InitDetect ==
    /\ pc = "grouped"
    /\ samples = <<>>
    /\ rules = DetectRules
    /\ columns = {}
    /\ options = NoOptions
    /\ classified = <<>>
    /\ \E k \in 0..MaxDetectUnits :
          \E kinds \in [1..k -> DetectUnitKinds] :
             units = Tiling([j \in 1..k |-> kinds[j][1]], [j \in 1..k |-> kinds[j][2]], 0)
    /\ params = NoParams
    /\ candidates = <<>>
    /\ selected = {}
    /\ result = <<>>
    /\ remerged = <<>>
    /\ stages = <<>>

\* a call of find_interbedding_candidates that returns (0.0 / 0.0, if met,
\* gives nan)
Detect ==
    /\ pc = "grouped"
    /\ \E p \in DetectParams :
          /\ params' = [op |-> "detect", max_sequence_length |-> p[1],
                        thick_unit_threshold |-> p[2]]
          /\ candidates' = FindInterbeddingCandidates(units, p[1], p[2], FALSE)
    /\ pc' = "detected"
    /\ UNCHANGED <<samples, rules, columns, options, classified, units, selected, result,
                   remerged, stages>>

\* a call of find_interbedding_candidates that meets 0.0 / 0.0 on Python
\* floats and raises
DetectRaises ==
    /\ pc = "grouped"
    /\ \E p \in DetectParams :
          /\ Raised(FindInterbeddingCandidates(units, p[1], p[2], TRUE))
          /\ params' = [op |-> "detect", max_sequence_length |-> p[1],
                        thick_unit_threshold |-> p[2]]
    /\ pc' = "ZeroDivisionError"
    /\ UNCHANGED <<samples, rules, columns, options, classified, units, candidates, selected,
                   result, remerged, stages>>

\* Apply working on the frame passed to it: the updated units are written
\* back into the caller's unit list
ApplyInPlace ==
    /\ pc = "detected"
    /\ candidates # <<>>
    /\ \E sel \in (SUBSET DOMAIN candidates) \ {{}} :
          /\ selected' = sel
          /\ result' = ApplyInterbeddingCandidates(units, candidates, sel, rules)
          /\ units' = result'
    /\ pc' = "applied"
    /\ UNCHANGED <<samples, rules, columns, options, classified, params, candidates,
                   remerged, stages>>

\* a call of apply_interbedding_candidates with the candidates the user
\* selected in the suggestions dialog (at least one)
Apply ==
    /\ pc = "detected"
    /\ candidates # <<>>
    /\ \E sel \in (SUBSET DOMAIN candidates) \ {{}} :
          /\ selected' = sel
          /\ result' = ApplyInterbeddingCandidates(units, candidates, sel, rules)
    /\ pc' = "applied"
    /\ UNCHANGED <<samples, rules, columns, options, classified, units, params, candidates,
                   remerged, stages>>

NextDetect == Detect \/ DetectRaises \/ Apply

SpecDetect == InitDetect /\ [][NextDetect]_vars

----------------------------------------------------------------------------
(* Properties of detection and application                                *)

Detected == pc \in {"detected", "applied"}
Applied == pc = "applied"

\* the codes of the units start .. start + n - 1 alternate
Alternating(us, start, n) ==
    \A j \in (start + 1)..(start + n - 1) : us[j].LITHOLOGY_CODE # us[j - 1].LITHOLOGY_CODE

\* none of the units start .. start + n - 1 is thicker than the threshold
NoneThick(us, start, n, thick_unit_threshold) ==
    \A j \in start..(start + n - 1) : ~(us[j].thickness > thick_unit_threshold)

\* the sum of the thicknesses of the units start .. start + n - 1
RECURSIVE SpanThickness(_, _, _)
SpanThickness(us, start, n) ==
    IF n = 0 THEN 0 ELSE us[start].thickness + SpanThickness(us, start + 1, n - 1)

\* the length of the run extracted at a scan position: the longest run from
\* it, of at most max_sequence_length units, that alternates and has no
\* thick unit
ExtractedLength(us, start, max_sequence_length, thick_unit_threshold) ==
    LET Lengths == {n \in 0..MinOf(max_sequence_length, Len(us) + 1 - start) :
                       /\ Alternating(us, start, n)
                       /\ NoneThick(us, start, n, thick_unit_threshold)}
    IN  CHOOSE n \in Lengths : \A m \in Lengths : m <= n

\* C8 (candidate qualification): every candidate returned by
\* find_interbedding_candidates is a run of between 3 and
\* max_sequence_length consecutive input units in which no unit has the
\* code of its predecessor, none is thicker than thick_unit_threshold, and
\* the mean thickness (total / count) is below 0.2 m; and a scan position
\* whose extracted run has fewer than 3 units or a mean thickness of 0.2 m
\* or more yields no candidate.
C8_CandidateQualification ==
    Detected =>
        LET msl == params.max_sequence_length
            tut == params.thick_unit_threshold
        IN  /\ \A c \in DOMAIN candidates :
                 LET sequence == candidates[c].original_sequence
                     n == Len(sequence)
                 IN  /\ 3 <= n /\ n <= msl
                     /\ \E start \in 1..(Len(units) + 1 - n) :
                           sequence = SubSeq(units, start, start + n - 1)
                     /\ Alternating(sequence, 1, n)
                     /\ NoneThick(sequence, 1, n, tut)
                     /\ SpanThickness(sequence, 1, n) < 20 * n
            /\ \A start \in 1..Len(units) :
                 LET n == ExtractedLength(units, start, msl, tut)
                 IN  (n < 3 \/ SpanThickness(units, start, n) >= 20 * n)
                        => FindInterbeddingCandidate(units, start, msl, tut, FALSE) = NoCandidate

\* four units scanned with a limit of three: the first is too thick and
\* yields nothing, the other three alternate and are the one candidate
C8_Witness ==
    /\ pc = "detected"
    /\ Len(units) = 4
    /\ params.max_sequence_length = 3
    /\ units[1].thickness > params.thick_unit_threshold
    /\ Len(candidates) = 1
    /\ candidates[1].original_sequence = SubSeq(units, 2, 4)

\* the sum of the percentages of a component list
RECURSIVE PercentageSum(_)
PercentageSum(lithologies) ==
    IF lithologies = <<>> THEN 0
    ELSE Head(lithologies).percentage + PercentageSum(Tail(lithologies))

\* C9 (interbedding percentage law), as stated: for every candidate
\* returned, the percentages of its retained components sum to 100 within
\* the tolerance of rounding each to 2 decimals (0.005 per component), also
\* when a non-dominant component under 5 % has been dropped.  A nan
\* percentage sums to nothing.
C9_AsStated ==
    Detected =>
        \A c \in DOMAIN candidates :
            LET lithologies == candidates[c].lithologies
            IN  /\ \A k \in DOMAIN lithologies : lithologies[k].percentage # NaN
                /\ 2 * Abs(PercentageSum(lithologies) - 10000) <= Len(lithologies)

\* the units of a frame that an application synthesized for a candidate
EmittedFor(frame, candidate) ==
    {j \in DOMAIN frame : /\ frame[j].record_sequence > 0
                           /\ frame[j].from_depth = candidate.from_depth
                           /\ frame[j].to_depth = candidate.to_depth}

\* C10 (synthesized thickness), as stated: for each selected candidate,
\* apply_interbedding_candidates emits one unit per retained component,
\* with the candidate's span; the sequence-1 component has thickness
\* to_depth - from_depth and every component of sequence > 1 has thickness
\* 0.
C10_AsStated ==
    Applied =>
        \A c \in selected :
            LET candidate == candidates[c]
                emitted == EmittedFor(result, candidate)
            IN  /\ Cardinality(emitted) = Len(candidate.lithologies)
                /\ \A k \in DOMAIN candidate.lithologies :
                      \E j \in emitted :
                         /\ result[j].LITHOLOGY_CODE = candidate.lithologies[k].code
                         /\ result[j].record_sequence = candidate.lithologies[k].sequence
                         /\ result[j].thickness =
                               IF candidate.lithologies[k].sequence = 1
                               THEN candidate.to_depth - candidate.from_depth
                               ELSE 0

\* the index in units at which each candidate of the detected list starts
CandidateStarts ==
    IF Len(units) <= 1 THEN <<>>
    ELSE ScanStarts(units, 1, 0, params.max_sequence_length, params.thick_unit_threshold,
                    FALSE, <<>>)

\* the indices of the units of candidate c's original sequence
MemberIndices(starts, c) ==
    starts[c]..(starts[c] + Len(candidates[c].original_sequence) - 1)

\* the frame the claim describes: unit by unit, a unit of no selected
\* candidate stands as it was, and the first unit of a selected candidate
\* is replaced by the candidate's synthesized records
RECURSIVE FramedFrom(_, _)
FramedFrom(starts, i) ==
    IF i > Len(units) THEN <<>>
    ELSE LET owners == {c \in selected : i \in MemberIndices(starts, c)}
         IN  (IF owners = {} THEN <<units[i]>>
              ELSE IF \E c \in owners : starts[c] = i
              THEN InterbeddedUnits(candidates[CHOOSE c \in owners : starts[c] = i], rules)
              ELSE <<>>)
             \o FramedFrom(starts, i + 1)

\* C11 (application frame), as stated: on depth-sorted units and the
\* candidates detected on them, apply_interbedding_candidates outputs
\* every unit of no selected candidate's sequence once, unchanged and in
\* order, no unit of a selected candidate's sequence, and each candidate's
\* synthesized records at the position of the span they replace.
C11_AsStated ==
    Applied => result = FramedFrom(CandidateStarts, 1)

\* C12 (detection never fails), as stated: on every unit list, runs of
\* zero total thickness included, find_interbedding_candidates raises no
\* error, and the percentages of the candidates it returns are defined
\* numbers between 0 and 100.
C12_AsStated ==
    /\ pc # "ZeroDivisionError"
    /\ Detected =>
          \A c \in DOMAIN candidates :
             \A k \in DOMAIN candidates[c].lithologies :
                LET percentage == candidates[c].lithologies[k].percentage
                IN  percentage # NaN /\ 0 <= percentage /\ percentage <= 10000

----------------------------------------------------------------------------
(* Pipeline run: Worker.run and MainWindow.analysis_finished              *)

MaxPipelineSamples == 4

\* the rules of a run: CO and XX with ranges of their own
PipelineRules == <<Rule("CO", 0, 400, 24, 40, ""), Rule("XX", 200, 1200, 30, 60, "Q")>>

\* (gamma, density) readings of a run: a CO reading and an XX reading
PipelineReadings == {<<100, 26>>, <<800, 50>>}

\* depth steps between consecutive samples: a repeated depth, 1 cm and
\* 30 cm
PipelineSteps == {0, 1, 30}

\* the sample at the end of a series grown by one reading, a step deeper
GrowSeries(smp, reading, step) ==
    Append(smp, [depth |-> IF smp = <<>> THEN 0 ELSE smp[Len(smp)].depth + step,
                 gamma |-> reading[1], density |-> reading[2]])

RECURSIVE PipelineSeries(_)
PipelineSeries(n) ==
    IF n = 0 THEN {<<>>}
    ELSE LET shorter == PipelineSeries(n - 1)
         IN  shorter \cup {GrowSeries(smp, reading, step) :
                               smp \in {x \in shorter : Len(x) = n - 1},
                               reading \in PipelineReadings, step \in PipelineSteps}

\* the settings the main window hands to the worker, with the defaults of
\* the thresholds
PipelineOptions ==
    [mode : {"pipeline"},
     analysis_method : {"standard", "simple"},
     use_researched_defaults : {FALSE},
     use_fallback_classification : {FALSE},
     merge_thin_units : BOOLEAN,
     merge_threshold : {DEFAULT_MERGE_THRESHOLD},
     smart_interbedding : BOOLEAN,
     max_sequence_length : {10},
     thick_unit_threshold : {50}]

\* one entry of the call log
Call(stage, input, output) == [stage |-> stage, input |-> input, output |-> output]

InitPipeline ==
    /\ pc = "start"
    /\ samples \in PipelineSeries(MaxPipelineSamples)
    /\ rules = PipelineRules
    /\ columns = {"gamma", "density"}
    /\ options \in PipelineOptions
    /\ classified = <<>>
    /\ units = <<>>
    /\ params = NoParams
    /\ candidates = <<>>
    /\ selected = {}
    /\ result = <<>>
    /\ remerged = <<>>
    /\ stages = <<>>

\* WorkerRun with the merge made whatever the merge_thin_units setting
WorkerRunAlwaysMerges ==
    /\ pc = "start"
    /\ LET classified_dataframe ==
               ClassifyRows(samples, rules, columns, options.use_researched_defaults,
                            options.use_fallback_classification)
           grouped == GroupIntoUnits(classified_dataframe, rules)
           merged == MergeThinUnits(grouped, options.merge_threshold)
       IN  /\ classified' = classified_dataframe
           /\ units' = merged
           /\ stages' = <<Call("classify", samples, classified_dataframe),
                          Call("group", classified_dataframe, grouped),
                          Call("merge", grouped, merged)>>
    /\ \E success \in BOOLEAN : pc' = IF success THEN "finished" ELSE "error"
    /\ UNCHANGED <<samples, rules, columns, options, params, candidates, selected, result,
                   remerged>>

\* Worker.run: classify (the worker has no analysis_method attribute, so
\* classify_rows is called whatever the setting), group, merge if enabled,
\* save; emits finished, or error when the save fails
WorkerRun ==
    /\ pc = "start"
    /\ LET classified_dataframe ==
               ClassifyRows(samples, rules, columns, options.use_researched_defaults,
                            options.use_fallback_classification)
           grouped == GroupIntoUnits(classified_dataframe, rules)
           merged == MergeThinUnits(grouped, options.merge_threshold)
       IN  /\ classified' = classified_dataframe
           /\ units' = IF options.merge_thin_units THEN merged ELSE grouped
           /\ stages' = <<Call("classify", samples, classified_dataframe),
                          Call("group", classified_dataframe, grouped)>>
                        \o (IF options.merge_thin_units
                            THEN <<Call("merge", grouped, merged)>> ELSE <<>>)
    /\ \E success \in BOOLEAN : pc' = IF success THEN "finished" ELSE "error"
    /\ UNCHANGED <<samples, rules, columns, options, params, candidates, selected, result,
                   remerged>>

\* MainWindow.analysis_finished on the emitted frames: with smart
\* interbedding, detection on the emitted units, the suggestions dialog
\* when there are candidates (sel is the user's selection, empty for a
\* rejected dialog), application of a non-empty selection; an exception of
\* the detection is caught and the emitted units are displayed
AnalysisFinished ==
    /\ pc = "finished"
    /\ IF ~options.smart_interbedding
       THEN /\ result' = units
            /\ UNCHANGED <<params, candidates, selected, stages>>
       ELSE \E native_floats \in BOOLEAN :
              LET found == FindInterbeddingCandidates(units, options.max_sequence_length,
                                                      options.thick_unit_threshold, native_floats)
              IN  /\ params' = [op |-> "detect",
                                max_sequence_length |-> options.max_sequence_length,
                                thick_unit_threshold |-> options.thick_unit_threshold]
                  /\ IF Raised(found)
                     THEN /\ candidates' = <<>>
                          /\ selected' = {}
                          /\ result' = units
                          /\ stages' = Append(stages, Call("detect", units, "ZeroDivisionError"))
                     ELSE /\ candidates' = found
                          /\ \E sel \in SUBSET DOMAIN found :
                                LET applied == ApplyInterbeddingCandidates(units, found, sel, rules)
                                IN  /\ selected' = sel
                                    /\ result' = IF sel = {} THEN units ELSE applied
                                    /\ stages' = Append(stages, Call("detect", units, found))
                                                 \o (IF sel = {} THEN <<>>
                                                     ELSE <<Call("apply", units, applied)>>)
    /\ pc' = "displayed"
    /\ UNCHANGED <<samples, rules, columns, options, classified, units, remerged>>

NextPipeline == WorkerRun \/ AnalysisFinished

SpecPipeline == InitPipeline /\ [][NextPipeline]_vars

----------------------------------------------------------------------------
(* Properties of a pipeline run                                           *)

\* the place of a stage in the order classify, group, detection,
\* application, merge
StageRank(stage) ==
    CASE stage = "classify" -> 1
      [] stage = "group" -> 2
      [] stage = "detect" -> 3
      [] stage = "apply" -> 4
      [] stage = "merge" -> 5

StageIndices(stage) == {i \in DOMAIN stages : stages[i].stage = stage}

\* C13 (stage ordering), as stated: the calls of a run are made in the
\* order classify, group, detection and application, merge; detection
\* reads the grouper's output, and the merge reads the result of the
\* application and never runs before detection.
C13_AsStated ==
    /\ \A i, j \in DOMAIN stages :
          i < j => StageRank(stages[i].stage) < StageRank(stages[j].stage)
    /\ \A d \in StageIndices("detect"), g \in StageIndices("group") :
          stages[d].input = stages[g].output
    /\ \A m \in StageIndices("merge"), a \in StageIndices("apply") :
          stages[m].input = stages[a].output

\* the place of a stage in the order classify, group, merge, detection,
\* application
RunRank(stage) ==
    CASE stage = "classify" -> 1
      [] stage = "group" -> 2
      [] stage = "merge" -> 3
      [] stage = "detect" -> 4
      [] stage = "apply" -> 5

\* C13 (stage ordering), amended: the calls of a run are made in the order
\* classify, group, merge (if and only if enabled), detection (only if
\* enabled) and application; each reads the output of the call before it,
\* except that the application reads what detection read: with both
\* options on, the merge reads the grouper's output, detection reads the
\* merged units, and the result of the application is not merged.
C13_StageOrder ==
    /\ \A i, j \in DOMAIN stages :
          i < j => RunRank(stages[i].stage) < RunRank(stages[j].stage)
    /\ \A i \in DOMAIN stages :
          /\ stages[i].stage = "classify" => stages[i].input = samples
          /\ stages[i].stage \in {"group", "merge", "detect"} =>
                stages[i].input = stages[i - 1].output
          /\ stages[i].stage = "apply" =>
                stages[i - 1].stage = "detect" /\ stages[i].input = stages[i - 1].input
    /\ stages # <<>> =>
          /\ StageIndices("classify") # {} /\ StageIndices("group") # {}
          /\ StageIndices("merge") # {} <=> options.merge_thin_units
    /\ StageIndices("detect") # {} => options.smart_interbedding
    /\ pc = "displayed" /\ options.smart_interbedding => StageIndices("detect") # {}

\* a run with both options on that merged, then detected on the merged
\* units, then applied a selection
C13_Witness ==
    /\ pc = "displayed"
    /\ options.merge_thin_units /\ options.smart_interbedding
    /\ Len(stages) = 5
    /\ stages[3].stage = "merge" /\ stages[4].stage = "detect" /\ stages[5].stage = "apply"
    /\ stages[4].input = stages[3].output
    /\ result = stages[5].output

----------------------------------------------------------------------------
(* Further properties of the classifier                                   *)

DensityNames == {"density", "short_space_density", "long_space_density"}

\* C14 (missing channel): when the gamma channel is absent, or none of
\* density, short-space density and long-space density resolves, a
\* classification in either mode returns (no error) every input sample,
\* labelled NL.
C14_MissingChannel ==
    Classified /\ ("gamma" \notin columns \/ columns \cap DensityNames = {}) =>
        /\ Len(classified) = Len(samples)
        /\ \A i \in DOMAIN samples :
              /\ classified[i].LITHOLOGY_CODE = "NL"
              /\ classified[i].depth = samples[i].depth
              /\ classified[i].gamma = samples[i].gamma
              /\ classified[i].density = samples[i].density

\* a standard-mode call without density column whose first rule, all
\* don't-care, would have taken every sample
C14_Witness ==
    /\ Classified
    /\ options.mode = "standard"
    /\ columns = {"gamma"}
    /\ samples # <<>>
    /\ rules # <<>>
    /\ rules[1].code = "CO"
    /\ rules[1].gamma_min = INVALID_DATA_VALUE /\ rules[1].gamma_max = INVALID_DATA_VALUE
    /\ rules[1].density_min = INVALID_DATA_VALUE /\ rules[1].density_max = INVALID_DATA_VALUE
    /\ \A i \in DOMAIN classified : classified[i].LITHOLOGY_CODE = "NL"

----------------------------------------------------------------------------
(* Fallback classification on bounded inputs                              *)

MaxFallbackSamples == 2

\* (gamma, density) readings: at the centre of CO; near SS; near XM with
\* gamma over 200 API; density 0.2 and 4.0 g/cc; gamma 300 API; gamma 300
\* API with density 0.2; gamma -100 API with density 2.3 and 2.8; far from
\* every default with nothing extreme; null
FallbackReadings ==
    {<<200, 30>>, <<800, 50>>, <<4100, 43>>, <<200, 4>>, <<800, 80>>, <<6000, 53>>,
     <<6000, 4>>, <<-2000, 46>>, <<-2000, 56>>, <<3600, 64>>, <<NaN, NaN>>}

FallbackSeries(n) ==
    {[i \in DOMAIN r |-> [depth |-> 10 * (i - 1), gamma |-> r[i][1], density |-> r[i][2]]] :
        r \in SeqUpTo(FallbackReadings, n)}

\* no rule, or one rule that takes the first two readings
FallbackRuleLists == {<<>>, <<Rule("XX", 200, 1200, 30, 60, "Q")>>}

InitFallback ==
    /\ pc = "start"
    /\ samples \in FallbackSeries(MaxFallbackSamples)
    /\ rules \in FallbackRuleLists
    /\ columns = {"gamma", "density"}
    /\ options = NoOptions
    /\ classified = <<>>
    /\ units = <<>>
    /\ params = NoParams
    /\ candidates = <<>>
    /\ selected = {}
    /\ result = <<>>
    /\ remerged = <<>>
    /\ stages = <<>>

\* a call of classify_rows with use_fallback_classification set
ClassifyWithFallback ==
    /\ pc = "start"
    /\ \E rd \in BOOLEAN :
          /\ options' = [mode |-> "standard", use_researched_defaults |-> rd,
                         use_fallback_classification |-> TRUE]
          /\ classified' = ClassifyRows(samples, rules, columns, rd, TRUE)
    /\ pc' = "classified"
    /\ UNCHANGED <<samples, rules, columns, units, params, candidates, selected, result,
                   remerged, stages>>

NextFallback == ClassifyWithFallback

SpecFallback == InitFallback /\ [][NextFallback]_vars

----------------------------------------------------------------------------
(* Properties of the fallback classification                              *)

\* the built-in lithologies nearest to a reading, if within distance 2.0
NearestWithinTwo(gamma_val, density_val) ==
    IF gamma_val = NaN \/ density_val = NaN THEN {}
    ELSE LET K == DOMAIN RESEARCHED_LITHOLOGY_DEFAULTS
             Dist(k) == Distance2(gamma_val, density_val, RESEARCHED_LITHOLOGY_DEFAULTS[k])
         IN  {RESEARCHED_LITHOLOGY_DEFAULTS[k].code :
                 k \in {k \in K : /\ Dist(k).num <= 4 * Dist(k).den
                                  /\ \A j \in K : ~FracLt(Dist(j).num, Dist(j).den,
                                                          Dist(k).num, Dist(k).den)}}

\* the extreme-value heuristics in their order: density < 1.0, density >
\* 3.5, gamma > 200, gamma < 10 with 2.0 <= density <= 3.0
Heuristic(gamma_val, density_val) ==
    CASE Lt(density_val, 20) -> "CO"
      [] ~Lt(density_val, 20) /\ Gt(density_val, 70) -> "IG"
      [] ~Lt(density_val, 20) /\ ~Gt(density_val, 70) /\ Gt(gamma_val, 4000) -> "SH"
      [] ~Lt(density_val, 20) /\ ~Gt(density_val, 70) /\ ~Gt(gamma_val, 4000)
         /\ Lt(gamma_val, 200) /\ Ge(density_val, 40) /\ Le(density_val, 60) ->
            IF Lt(density_val, 54) THEN "SS" ELSE "LS"
      [] OTHER -> "NL"

\* C15 (fallback classification): with fallback enabled, a sample that
\* rule matching left at NL gets the built-in lithology nearest in
\* range-normalized distance if that distance is <= 2.0, otherwise the
\* first applicable extreme-value heuristic, otherwise it stays NL; a
\* sample that a rule classified keeps its code.
C15_Fallback ==
    Classified /\ options.use_fallback_classification =>
        LET matched == ClassifyRows(samples, rules, columns, options.use_researched_defaults,
                                    FALSE)
        IN  /\ Len(classified) = Len(samples)
            /\ \A i \in DOMAIN samples :
                  LET near == NearestWithinTwo(samples[i].gamma, samples[i].density)
                      code == classified[i].LITHOLOGY_CODE
                  IN  IF matched[i].LITHOLOGY_CODE # "NL" THEN code = matched[i].LITHOLOGY_CODE
                      ELSE IF near # {} THEN code \in near
                      ELSE code = Heuristic(samples[i].gamma, samples[i].density)

\* one sample out of reach of every default that the last heuristic makes
\* LS, one that is nearest to XM although its gamma exceeds 200 API
C15_Witness ==
    /\ Classified /\ options.use_fallback_classification
    /\ Len(samples) = 2
    /\ rules = <<>>
    /\ samples[1].gamma = -2000 /\ samples[1].density = 56
    /\ classified[1].LITHOLOGY_CODE = "LS"
    /\ samples[2].gamma = 4100 /\ samples[2].density = 43
    /\ classified[2].LITHOLOGY_CODE = "XM"

----------------------------------------------------------------------------
(* Researched-defaults substitution on bounded inputs                     *)

MaxDefaultsSamples == 2

\* channel ranges of a rule: don't-care, (0, 0), and a range of its own
\* wider than the built-in range of CO
DefaultsGammaRanges == {<<INVALID_DATA_VALUE, INVALID_DATA_VALUE>>, <<0, 0>>, <<0, 1000>>}
DefaultsDensityRanges == {<<INVALID_DATA_VALUE, INVALID_DATA_VALUE>>, <<0, 0>>, <<24, 40>>}

\* rules of a code with built-in ranges (CO) and of one without (XX)
DefaultsRuleDomain ==
    {Rule(code, g[1], g[2], d[1], d[2], "") :
        code \in {"CO", "XX"}, g \in DefaultsGammaRanges, d \in DefaultsDensityRanges}

\* one rule, alone or followed by a rule that takes every sample left
DefaultsRuleLists ==
    {<<r>> : r \in DefaultsRuleDomain}
    \cup {<<r, Rule("YY", INVALID_DATA_VALUE, INVALID_DATA_VALUE,
                    INVALID_DATA_VALUE, INVALID_DATA_VALUE, "")>> : r \in DefaultsRuleDomain}

\* (gamma, density) readings: inside the built-in ranges of CO; zero;
\* gamma outside the built-in range; density outside it; null
DefaultsReadings == {<<200, 30>>, <<0, 0>>, <<800, 30>>, <<200, 38>>, <<NaN, NaN>>}

DefaultsSeries(n) ==
    {[i \in DOMAIN r |-> [depth |-> 10 * (i - 1), gamma |-> r[i][1], density |-> r[i][2]]] :
        r \in SeqUpTo(DefaultsReadings, n)}

InitDefaults ==
    /\ pc = "start"
    /\ samples \in DefaultsSeries(MaxDefaultsSamples)
    /\ rules \in DefaultsRuleLists
    /\ columns = {"gamma", "density"}
    /\ options = NoOptions
    /\ classified = <<>>
    /\ units = <<>>
    /\ params = NoParams
    /\ candidates = <<>>
    /\ selected = {}
    /\ result = <<>>
    /\ remerged = <<>>
    /\ stages = <<>>

\* a call of classify_rows without fallback, researched defaults on or off
ClassifyWithDefaults ==
    /\ pc = "start"
    /\ \E rd \in BOOLEAN :
          /\ options' = [mode |-> "standard", use_researched_defaults |-> rd,
                         use_fallback_classification |-> FALSE]
          /\ classified' = ClassifyRows(samples, rules, columns, rd, FALSE)
    /\ pc' = "classified"
    /\ UNCHANGED <<samples, rules, columns, units, params, candidates, selected, result,
                   remerged, stages>>

NextDefaults == ClassifyWithDefaults

SpecDefaults == InitDefaults /\ [][NextDefaults]_vars

----------------------------------------------------------------------------
(* Properties of the researched-defaults substitution                     *)

\* a channel of a rule takes a value: on the built-in range lo_d .. hi_d
\* when substituted, else on its own range, a don't-care range taking all
ChannelTakes(v, lo, hi, substituted, lo_d, hi_d) ==
    IF substituted THEN InRange(v, lo_d, hi_d)
    ELSE IsWildcard(lo, hi) \/ InRange(v, lo, hi)

\* C16 (researched-defaults substitution): in standard mode the first rule
\* takes a sample iff both channels take it, where a channel whose own
\* range is don't-care or exactly (0, 0) is evaluated on the built-in range
\* of the rule's code, and is no don't-care any more, when
\* use_researched_defaults is set and the code has built-in ranges (each
\* channel for itself), and on the rule's own range and don't-care flag
\* otherwise.
C16_ResearchedDefaults ==
    StandardNoFallback /\ rules # <<>> =>
        LET r == rules[1]
            builtin == HasResearchedDefaults(r.code) /\ options.use_researched_defaults
            gsub == builtin /\ (IsWildcard(r.gamma_min, r.gamma_max)
                                \/ (r.gamma_min = 0 /\ r.gamma_max = 0))
            dsub == builtin /\ (IsWildcard(r.density_min, r.density_max)
                                \/ (r.density_min = 0 /\ r.density_max = 0))
            d == IF builtin THEN ResearchedDefaults(r.code) ELSE r
        IN  \A i \in DOMAIN samples :
               classified[i].LITHOLOGY_CODE = r.code
                  <=> /\ ChannelTakes(samples[i].gamma, r.gamma_min, r.gamma_max, gsub,
                                      d.gamma_min, d.gamma_max)
                      /\ ChannelTakes(samples[i].density, r.density_min, r.density_max, dsub,
                                      d.density_min, d.density_max)

\* researched defaults on, a CO rule with gamma (0, 0) and don't-care
\* density: it takes a reading inside the built-in ranges and leaves one
\* whose density its own don't-care would have let pass
C16_Witness ==
    /\ StandardNoFallback
    /\ options.use_researched_defaults
    /\ Len(rules) = 1
    /\ rules[1].code = "CO"
    /\ rules[1].gamma_min = 0 /\ rules[1].gamma_max = 0
    /\ IsWildcard(rules[1].density_min, rules[1].density_max)
    /\ Len(samples) = 2
    /\ samples[1].gamma = 200 /\ samples[1].density = 30
    /\ classified[1].LITHOLOGY_CODE = "CO"
    /\ samples[2].gamma = 200 /\ samples[2].density = 38
    /\ classified[2].LITHOLOGY_CODE = "NL"

\* the four units SS(0.01) SH(0.01) SS(0.01) SH(0.01) scanned with
\* max_sequence_length 10 and thick_unit_threshold 0.5
ExampleScan ==
    /\ Len(units) = 4
    /\ \A j \in 1..4 : /\ units[j].thickness = 1
                       /\ units[j].LITHOLOGY_CODE = (IF j % 2 = 1 THEN "SS" ELSE "SH")
    /\ params.max_sequence_length = 10
    /\ params.thick_unit_threshold = 50

\* C17 (interrelationship code): a candidate of mean unit thickness m has
\* code IL if m < 0.02, UB if 0.02 <= m < 0.06, TB if 0.06 <= m < 0.2, CB
\* otherwise; and the units SS(0.01) SH(0.01) SS(0.01) SH(0.01) with the
\* limits 10 and 0.5 give exactly one candidate, of code IL, with two
\* components at 50 % each.
C17_InterrelationshipCode ==
    Detected =>
        /\ \A c \in DOMAIN candidates :
              LET n == Len(candidates[c].original_sequence)
                  total == SpanThickness(candidates[c].original_sequence, 1, n)
              IN  candidates[c].interrelationship_code =
                     CASE total < 2 * n -> "IL"
                       [] 2 * n <= total /\ total < 6 * n -> "UB"
                       [] 6 * n <= total /\ total < 20 * n -> "TB"
                       [] OTHER -> "CB"
        /\ ExampleScan =>
              /\ Len(candidates) = 1
              /\ candidates[1].interrelationship_code = "IL"
              /\ Len(candidates[1].lithologies) = 2
              /\ \A k \in 1..2 : candidates[1].lithologies[k].percentage = 5000
              /\ {candidates[1].lithologies[k].code : k \in 1..2} = {"SS", "SH"}

\* the example has been scanned and has given its candidate
C17_Witness ==
    /\ pc = "detected"
    /\ ExampleScan
    /\ candidates # <<>>
    /\ candidates[1].interrelationship_code = "IL"
    /\ candidates[1].average_layer_thickness = <<4, 4>>

\* the total thickness of a lithology within a run
RECURSIVE CodeThickness(_, _)
CodeThickness(sequence, code) ==
    IF sequence = <<>> THEN 0
    ELSE (IF Head(sequence).LITHOLOGY_CODE = code THEN Head(sequence).thickness ELSE 0)
         + CodeThickness(Tail(sequence), code)

FirstEncounter(sequence, code) ==
    SetMin({j \in DOMAIN sequence : sequence[j].LITHOLOGY_CODE = code})

\* the rank of a lithology of a run: by total thickness descending, then
\* by first encounter
RankOf(sequence, code) ==
    LET codes == {sequence[j].LITHOLOGY_CODE : j \in DOMAIN sequence}
        t == CodeThickness(sequence, code)
    IN  1 + Cardinality({o \in codes \ {code} :
                            LET u == CodeThickness(sequence, o)
                            IN  u > t \/ (u = t /\ FirstEncounter(sequence, o)
                                                   < FirstEncounter(sequence, code))})

\* the lithologies of a run that the filter keeps: the first of the
\* ranking, and those holding 5 % of the run thickness or more
Kept(sequence) ==
    LET codes == {sequence[j].LITHOLOGY_CODE : j \in DOMAIN sequence}
        total == SpanThickness(sequence, 1, Len(sequence))
    IN  {code \in codes : RankOf(sequence, code) = 1
                          \/ ~(100 * CodeThickness(sequence, code) < 5 * total)}

\* C18 (dominance ranking and filter): the components of a candidate are
\* the lithologies of its run ranked by total thickness descending, ties
\* by first encounter, numbered 1..k, less those of sequence > 1 holding
\* under 5 % of the run thickness; and a qualifying run of which fewer than
\* 2 components remain yields no candidate.
C18_DominanceRanking ==
    Detected =>
        LET msl == params.max_sequence_length
            tut == params.thick_unit_threshold
        IN  /\ \A c \in DOMAIN candidates :
                 LET sequence == candidates[c].original_sequence
                     lithologies == candidates[c].lithologies
                     kept == Kept(sequence)
                 IN  /\ Len(lithologies) = Cardinality(kept)
                     /\ Len(lithologies) >= 2
                     /\ \A k \in DOMAIN lithologies :
                           /\ lithologies[k].code \in kept
                           /\ lithologies[k].sequence = RankOf(sequence, lithologies[k].code)
                           /\ lithologies[k].thickness
                                 = CodeThickness(sequence, lithologies[k].code)
                           /\ k > 1 => lithologies[k - 1].sequence < lithologies[k].sequence
            /\ \A start \in 1..Len(units) :
                 LET n == ExtractedLength(units, start, msl, tut)
                 IN  Cardinality(Kept(SubSeq(units, start, start + n - 1))) < 2
                        => FindInterbeddingCandidate(units, start, msl, tut, FALSE) = NoCandidate

\* a run SS(0.10) SH(0.01) CO(0.10): SS and CO tie and rank in order of
\* encounter, SH holds under 5 % and is dropped from rank 3
C18_Witness ==
    /\ pc = "detected"
    /\ Len(units) = 3
    /\ units[1].LITHOLOGY_CODE = "SS" /\ units[1].thickness = 10
    /\ units[2].LITHOLOGY_CODE = "SH" /\ units[2].thickness = 1
    /\ units[3].LITHOLOGY_CODE = "CO" /\ units[3].thickness = 10
    /\ Len(candidates) = 1
    /\ Len(candidates[1].lithologies) = 2
    /\ candidates[1].lithologies[1].code = "SS" /\ candidates[1].lithologies[1].sequence = 1
    /\ candidates[1].lithologies[2].code = "CO" /\ candidates[1].lithologies[2].sequence = 2

----------------------------------------------------------------------------
(* Scans of longer unit lists                                             *)

MaxScanUnits == 6

\* the (thickness, lithology) pairs of the units: thin SS and SH, and an
\* SS of 0.30 m
ScanUnitKinds == {<<1, <<"SS", "">>>>, <<1, <<"SH", "">>>>, <<30, <<"SS", "">>>>}

\* the unit list is any list of up to MaxScanUnits units of positive
\* thickness that tile an interval, in depth order
InitScan ==
    /\ pc = "grouped"
    /\ samples = <<>>
    /\ rules = DetectRules
    /\ columns = {}
    /\ options = NoOptions
    /\ classified = <<>>
    /\ \E k \in 0..MaxScanUnits :
          \E kinds \in [1..k -> ScanUnitKinds] :
             units = Tiling([j \in 1..k |-> kinds[j][1]], [j \in 1..k |-> kinds[j][2]], 0)
    /\ params = NoParams
    /\ candidates = <<>>
    /\ selected = {}
    /\ result = <<>>
    /\ remerged = <<>>
    /\ stages = <<>>

NextScan == Detect \/ Apply

SpecScan == InitScan /\ [][NextScan]_vars

----------------------------------------------------------------------------
(* Properties of the scan                                                 *)

\* the index of the unit a candidate starts with (the units of a scan have
\* positive thickness, so no two start at one depth)
StartIndex(c) == CHOOSE j \in DOMAIN units : units[j].from_depth = candidates[c].from_depth

\* the index after the last unit of a candidate
ResumeIndex(c) == StartIndex(c) + Len(candidates[c].original_sequence)

\* the scan position p yields a candidate
Yields(p) ==
    FindInterbeddingCandidate(units, p, params.max_sequence_length,
                              params.thick_unit_threshold, FALSE).kind = "candidate"

\* C19 (scan advance): the scan starts at the first unit, resumes after an
\* accepted candidate of n units at index i at i + n and after a position
\* without candidate at i + 1: each candidate is the one of the first
\* yielding position at or after the point of resumption; hence the
\* candidates are in ascending unit order and pairwise disjoint.
C19_ScanAdvance ==
    Detected =>
        /\ \A c \in DOMAIN candidates :
              LET from == IF c = 1 THEN 1 ELSE ResumeIndex(c - 1)
                  start == StartIndex(c)
              IN  /\ candidates[c].from_depth \in {units[j].from_depth : j \in DOMAIN units}
                  /\ from <= start
                  /\ \A p \in from..(start - 1) : ~Yields(p)
                  /\ candidates[c].original_sequence
                        = SubSeq(units, start, ResumeIndex(c) - 1)
                  /\ candidates[c]
                        = FindInterbeddingCandidate(units, start, params.max_sequence_length,
                                                    params.thick_unit_threshold, FALSE)
        /\ LET from == IF candidates = <<>> THEN 1 ELSE ResumeIndex(Len(candidates))
           IN  Len(units) > 1 => \A p \in from..Len(units) : ~Yields(p)
        /\ \A c, e \in DOMAIN candidates :
              c < e => ResumeIndex(c) <= StartIndex(e)

\* six alternating thin units scanned with a limit of three: the candidate
\* of units 1..3, then the one of units 4..6
C19_Witness ==
    /\ pc = "detected"
    /\ Len(units) = 6
    /\ params.max_sequence_length = 3
    /\ Len(candidates) = 2
    /\ StartIndex(1) = 1 /\ ResumeIndex(1) = 4
    /\ StartIndex(2) = 4 /\ ResumeIndex(2) = 7

----------------------------------------------------------------------------
(* Grouping of a re-expanded unit list                                    *)

MaxRegroupRows == 9

\* the orders of a depth-sorted frame that differ only in the order of the
\* rows of equal depth
RECURSIVE TieOrders(_)
TieOrders(sorted_df) ==
    IF sorted_df = <<>> THEN {<<>>}
    ELSE LET n == Cardinality({i \in DOMAIN sorted_df : sorted_df[i].depth = sorted_df[1].depth})
             block == SubSeq(sorted_df, 1, n)
             rest == SubSeq(sorted_df, n + 1, Len(sorted_df))
         IN  {[i \in 1..n |-> block[p[i]]] \o r : p \in Permutations(1..n), r \in TieOrders(rest)}

\* the frames dataframe.sort_values(by=DEPTH_COLUMN) can return.  The call
\* leaves the sorting kind at its default, quicksort, which does not promise
\* to keep rows of equal depth in their order: frames of up to 16 rows are
\* sorted by insertion and keep it, longer frames are partitioned and come
\* back in an order of their tied rows that depends on the build.
SortValuesOutcomes(df) ==
    IF Len(df) <= 16 THEN {SortValues(df, DepthColumn(df))}
    ELSE TieOrders(SortValues(df, DepthColumn(df)))

\* the unit lists group_into_units can return for a frame
GroupIntoUnitsOutcomes(df, rls) ==
    {GroupStandardUnits(sorted_df, rls) : sorted_df \in SortValuesOutcomes(df)}

\* the sample series a unit list is expanded into: per unit, in unit order,
\* a sample at its from_depth and a sample at its to_depth with its code
Expand(us) ==
    [i \in 1..(2 * Len(us)) |->
        LET u == us[(i + 1) \div 2]
        IN  [depth |-> IF i % 2 = 1 THEN u.from_depth ELSE u.to_depth,
             gamma |-> NaN, density |-> NaN, LITHOLOGY_CODE |-> u.LITHOLOGY_CODE]]

\* classified frames of up to MaxRegroupRows rows, one every 0.50 m, in
\* depth order
InitRegroup ==
    /\ pc = "classified"
    /\ samples = <<>>
    /\ rules = <<>>
    /\ columns = {}
    /\ options = NoOptions
    /\ \E k \in 0..MaxRegroupRows :
          \E codes \in [1..k -> CodeDomain] :
             classified = [i \in 1..k |-> [depth |-> 50 * (i - 1), gamma |-> NaN,
                                           density |-> NaN, LITHOLOGY_CODE |-> codes[i]]]
    /\ units = <<>>
    /\ params = NoParams
    /\ candidates = <<>>
    /\ selected = {}
    /\ result = <<>>
    /\ remerged = <<>>
    /\ stages = <<>>

\* a call of group_into_units on the expansion of the units grouped before
Regroup ==
    /\ pc = "grouped"
    /\ result' \in GroupIntoUnitsOutcomes(Expand(units), rules)
    /\ pc' = "regrouped"
    /\ UNCHANGED <<samples, rules, columns, options, classified, units, params, candidates, selected, remerged, stages>>

NextRegroup == Group \/ Regroup

SpecRegroup == InitRegroup /\ [][NextRegroup]_vars

\* the boundaries and code of each unit of a list
Boundaries(us) ==
    [j \in DOMAIN us |-> <<us[j].from_depth, us[j].to_depth, us[j].LITHOLOGY_CODE>>]

\* C20 (grouping idempotence): grouping the expansion of the units produced
\* by group (per unit, in unit order, a sample at from_depth and one at
\* to_depth with the unit's code) yields units with the same from_depth,
\* to_depth and code.
C20_AsStated == pc = "regrouped" => Boundaries(result) = Boundaries(units)

----------------------------------------------------------------------------
(* Sequences of analyzer calls on one borehole                            *)

MaxCallSamples == 3

InitCalls ==
    /\ pc = "start"
    /\ samples \in PipelineSeries(MaxCallSamples)
    /\ rules = PipelineRules
    /\ columns = {}
    /\ options = NoOptions
    /\ classified = <<>>
    /\ units = <<>>
    /\ params = NoParams
    /\ candidates = <<>>
    /\ selected = {}
    /\ result = <<>>
    /\ remerged = <<>>
    /\ stages = <<>>

\* a call of apply_interbedding_candidates with an empty selection: the
\* frame passed in is returned
ApplyEmptySelection ==
    /\ pc = "detected"
    /\ selected' = {}
    /\ result' = ApplyInterbeddingCandidates(units, candidates, {}, rules)
    /\ pc' = "applied"
    /\ UNCHANGED <<samples, rules, columns, options, classified, units, params, candidates,
                   remerged, stages>>

\* a classification, the grouping of its result, and then either merges or
\* a detection and an application
NextCalls ==
    \/ ClassifyStandard \/ ClassifySimple \/ ClassifyOtherColumns
    \/ Group
    \/ Merge \/ MergeAgain
    \/ Detect \/ Apply \/ ApplyEmptySelection

SpecCalls == InitCalls /\ [][NextCalls]_vars

\* the collections passed to the call made by a step from a state at pc
InputsOf(at) ==
    CASE at = "start" -> <<samples, rules>>
      [] at = "classified" -> <<classified, rules>>
      [] at = "grouped" -> <<units>>
      [] at = "detected" -> <<units, candidates, rules>>
      [] at = "merged" -> <<result>>
      [] OTHER -> <<>>

\* the collections a call has been passed or has returned once the run is
\* at pc, the last one returned excepted
Held(at) ==
    CASE at = "classified" -> <<samples, rules>>
      [] at = "grouped" -> <<samples, rules, classified>>
      [] at = "detected" -> <<samples, rules, classified, units>>
      [] at = "applied" -> <<samples, rules, classified, units, candidates>>
      [] at = "merged" -> <<samples, rules, classified, units>>
      [] at = "remerged" -> <<samples, rules, classified, units, result>>
      [] OTHER -> <<>>

\* C21 (no input mutation): every call leaves the collections passed to it,
\* and every collection passed to or returned by an earlier call, with the
\* values they had before; merge on at most one unit and apply with an
\* empty selection return their input.
C21_NoInputMutation ==
    /\ [][\A at \in {"start", "classified", "grouped", "detected", "merged"} :
             pc = at => /\ InputsOf(at)' = InputsOf(at)
                        /\ Held(at)' = Held(at)]_vars
    /\ []((pc = "merged" /\ Len(units) <= 1) => result = units)
    /\ []((pc = "applied" /\ selected = {}) => result = units)

\* an application that replaced units of a grouped, classified series
C21_Witness ==
    /\ pc = "applied"
    /\ samples # <<>>
    /\ selected # {}
    /\ result # units
    /\ Len(classified) = Len(samples)

----------------------------------------------------------------------------
(* Null samples                                                           *)

\* both channels of the sample are null
NullSample(s) == s.gamma = NaN /\ s.density = NaN

\* the rules, skipping NL, evaluated with both channels don't-care
OpenRules ==
    {k \in DOMAIN rules :
        /\ rules[k].code # "NL"
        /\ EffectiveRule(rules[k], options.use_researched_defaults).gamma_ignore
        /\ EffectiveRule(rules[k], options.use_researched_defaults).density_ignore}

----------------------------------------------------------------------------
(* Manual interbedding: MainWindow.create_manual_interbedding             *)

MaxManualUnits == 4

\* str.upper() on the codes met here
Upper(code) == IF code = "ss" THEN "SS" ELSE code

\* the first rule whose code, in upper case, is the component's code in
\* upper case; <<>> when there is none (the default rule then made up has
\* an empty qualifier)
FirstRule(rls, code) ==
    LET K == {k \in DOMAIN rls : Upper(rls[k].code) = Upper(code)}
    IN  IF K = {} THEN <<>> ELSE <<rls[SetMin(K)]>>

\* _are_rows_consecutive on the set of selected rows
AreRowsConsecutive(row_indices) ==
    /\ row_indices # {}
    /\ \A r \in row_indices : r = SetMin(row_indices) \/ (r - 1) \in row_indices

\* ManualRow with the span thickness on every record
ManualRowFullThickness(interbedding_data, lith, rls) ==
    [from_depth |-> interbedding_data.from_depth,
     to_depth |-> interbedding_data.to_depth,
     thickness |-> interbedding_data.to_depth - interbedding_data.from_depth,
     LITHOLOGY_CODE |-> lith.code,
     lithology_qualifier |-> QualifierOf(FirstRule(rls, lith.code)),
     record_sequence |-> lith.sequence,
     inter_relationship |-> IF lith.sequence = 1
                            THEN interbedding_data.interrelationship_code ELSE "",
     percentage |-> lith.percentage]

\* new_row of one component of the dialog's data
ManualRow(interbedding_data, lith, rls) ==
    [from_depth |-> interbedding_data.from_depth,
     to_depth |-> interbedding_data.to_depth,
     thickness |-> IF lith.sequence = 1
                   THEN interbedding_data.to_depth - interbedding_data.from_depth ELSE 0,
     LITHOLOGY_CODE |-> lith.code,
     lithology_qualifier |-> QualifierOf(FirstRule(rls, lith.code)),
     record_sequence |-> lith.sequence,
     inter_relationship |-> IF lith.sequence = 1
                            THEN interbedding_data.interrelationship_code ELSE "",
     percentage |-> lith.percentage]

\* the rows of the frame from row j on that are not selected
RECURSIVE DropLoop(_, _, _)
DropLoop(units_df, selected_rows, j) ==
    IF j > Len(units_df) THEN <<>>
    ELSE (IF j \in selected_rows THEN <<>> ELSE <<units_df[j]>>)
         \o DropLoop(units_df, selected_rows, j + 1)

\* updated_df.drop(selected_rows).reset_index(drop=True); rows are 1-based
DropRows(units_df, selected_rows) == DropLoop(units_df, selected_rows, 1)

\* the insertion takes the branch that appends row by row with
\* DataFrame.append
AppendsRows(units_df, selected_rows, interbedding_data) ==
    /\ SetMin(selected_rows) - 1 >= Len(DropRows(units_df, selected_rows))
    /\ interbedding_data.lithologies # <<>>

\* _apply_manual_interbedding: the frame stored in last_units_dataframe
ApplyManualInterbedding(units_df, selected_rows, interbedding_data, rls) ==
    LET updated_df == DropRows(units_df, selected_rows)
        insert_idx == SetMin(selected_rows) - 1
        new_rows == [m \in DOMAIN interbedding_data.lithologies |->
                        ManualRow(interbedding_data, interbedding_data.lithologies[m], rls)]
    IN  IF insert_idx >= Len(updated_df) THEN updated_df \o new_rows
        ELSE SubSeq(updated_df, 1, insert_idx) \o new_rows
             \o SubSeq(updated_df, insert_idx + 1, Len(updated_df))

\* (thickness, lithology) pairs of the units shown in the table
ManualUnitKinds == {<<1, <<"SS", "">>>>, <<10, <<"SS", "">>>>, <<1, <<"SH", "">>>>}

\* two rules for SS, with different qualifiers, and none for SH
ManualRules == <<Rule("SS", 400, 1200, 40, 54, "B"), Rule("SS", 400, 1200, 40, 54, "C"), NLRule>>

Lith(code, sequence, percentage) == [code |-> code, sequence |-> sequence, percentage |-> percentage]

\* components the dialog can hand back: none, one, two, two with a code in
\* lower case
ManualLithologies ==
    {<<>>, <<Lith("SH", 1, 10000)>>, <<Lith("SS", 1, 6000), Lith("SH", 2, 4000)>>,
     <<Lith("SH", 1, 7000), Lith("ss", 2, 3000)>>}

\* the data the dialog can hand back for the selected units: their span or
\* a span edited to start at 0, a relationship code, components
ManualData(units_df, selected_rows) ==
    [from_depth : {units_df[SetMin(selected_rows)].from_depth, 0},
     to_depth : {units_df[SetMax(selected_rows)].to_depth},
     interrelationship_code : {"IL", "TB"},
     lithologies : ManualLithologies]

InitManual ==
    /\ pc = "displayed"
    /\ samples = <<>>
    /\ rules = ManualRules
    /\ columns = {}
    /\ options = NoOptions
    /\ classified = <<>>
    /\ \E k \in 0..MaxManualUnits :
          \E kinds \in [1..k -> ManualUnitKinds] :
             units = Tiling([j \in 1..k |-> kinds[j][1]], [j \in 1..k |-> kinds[j][2]], 0)
    /\ params = NoParams
    /\ candidates = <<>>
    /\ selected = {}
    /\ result = <<>>
    /\ remerged = <<>>
    /\ stages = <<>>

\* create_manual_interbedding returning after a warning: no units, fewer
\* than 2 rows selected, or rows not consecutive
ManualInterbeddingWarned ==
    /\ pc = "displayed"
    /\ \E rows \in SUBSET DOMAIN units :
          /\ units = <<>> \/ Cardinality(rows) < 2 \/ ~AreRowsConsecutive(rows)
          /\ selected' = rows
    /\ result' = units
    /\ pc' = "warned"
    /\ UNCHANGED <<samples, rules, columns, options, classified, units, params, candidates,
                   remerged, stages>>

\* create_manual_interbedding with a valid selection and the dialog
\* rejected
ManualInterbeddingRejected ==
    /\ pc = "displayed"
    /\ \E rows \in SUBSET DOMAIN units :
          /\ Cardinality(rows) >= 2 /\ AreRowsConsecutive(rows)
          /\ selected' = rows
    /\ result' = units
    /\ pc' = "rejected"
    /\ UNCHANGED <<samples, rules, columns, options, classified, units, params, candidates,
                   remerged, stages>>

\* create_manual_interbedding with a valid selection and the dialog
\* accepted: _apply_manual_interbedding stores the updated frame
ManualInterbeddingApplied ==
    /\ pc = "displayed"
    /\ \E rows \in SUBSET DOMAIN units :
          /\ Cardinality(rows) >= 2 /\ AreRowsConsecutive(rows)
          /\ \E interbedding_data \in ManualData(units, rows) :
                /\ selected' = rows
                /\ params' = [op |-> "manual", interbedding_data |-> interbedding_data]
                /\ result' = ApplyManualInterbedding(units, rows, interbedding_data, rules)
    /\ pc' = "manual"
    /\ UNCHANGED <<samples, rules, columns, options, classified, units, candidates,
                   remerged, stages>>

\* the same where the rows are appended with DataFrame.append and the
\* installed pandas has no such method: AttributeError, nothing stored
ManualInterbeddingRaises ==
    /\ pc = "displayed"
    /\ \E rows \in SUBSET DOMAIN units :
          /\ Cardinality(rows) >= 2 /\ AreRowsConsecutive(rows)
          /\ \E interbedding_data \in ManualData(units, rows) :
                /\ AppendsRows(units, rows, interbedding_data)
                /\ selected' = rows
                /\ params' = [op |-> "manual", interbedding_data |-> interbedding_data]
    /\ result' = units
    /\ pc' = "AttributeError"
    /\ UNCHANGED <<samples, rules, columns, options, classified, units, candidates,
                   remerged, stages>>

NextManual ==
    \/ ManualInterbeddingWarned
    \/ ManualInterbeddingRejected
    \/ ManualInterbeddingApplied
    \/ ManualInterbeddingRaises

SpecManual == InitManual /\ [][NextManual]_vars

\* C23 (manual interbedding): the unit list changes only for a selection
\* of at least 2 consecutive rows; when applied, the selected units are
\* replaced, at the place of the first, by one record per component with
\* the supplied span, the sequence-1 record with the span's thickness and
\* the relationship code, the others with thickness 0 and no relationship
\* code; the other units stay as they were, in their order.
C23_ManualInterbedding ==
    /\ pc \in {"warned", "rejected", "AttributeError"} => result = units
    /\ pc # "displayed" /\ result # units =>
          Cardinality(selected) >= 2 /\ AreRowsConsecutive(selected)
    /\ pc = "manual" =>
          LET data == params.interbedding_data
              first == SetMin(selected)
              last == SetMax(selected)
              n == Len(data.lithologies)
          IN  /\ Cardinality(selected) >= 2 /\ selected = first..last
              /\ Len(result) = Len(units) - Cardinality(selected) + n
              /\ \A j \in 1..(first - 1) : result[j] = units[j]
              /\ \A j \in (last + 1)..Len(units) :
                    result[j - Cardinality(selected) + n] = units[j]
              /\ \A m \in 1..n :
                    LET record == result[first - 1 + m]
                        lith == data.lithologies[m]
                    IN  /\ record.from_depth = data.from_depth
                        /\ record.to_depth = data.to_depth
                        /\ record.LITHOLOGY_CODE = lith.code
                        /\ record.record_sequence = lith.sequence
                        /\ record.percentage = lith.percentage
                        /\ record.thickness
                              = IF lith.sequence = 1 THEN data.to_depth - data.from_depth ELSE 0
                        /\ record.inter_relationship
                              = IF lith.sequence = 1 THEN data.interrelationship_code ELSE ""

\* rows 2 and 3 of four units replaced by two components
C23_Witness ==
    /\ pc = "manual"
    /\ Len(units) = 4
    /\ selected = {2, 3}
    /\ Len(params.interbedding_data.lithologies) = 2
    /\ Len(result) = 4
    /\ result[1] = units[1] /\ result[4] = units[4]
    /\ result[2].record_sequence = 1 /\ result[2].thickness > 0
    /\ result[3].record_sequence = 2 /\ result[3].thickness = 0

----------------------------------------------------------------------------
(* The scan of find_interbedding_candidates, one loop iteration a step    *)

MaxStepUnits == 3

\* by how many units a long list exceeds ScanLimit - 1 thick units
MaxExcess == 1

\* (thickness, lithology) pairs of the units of the short lists
StepUnitKinds ==
    {<<0, <<"SS", "">>>>, <<0, <<"SH", "">>>>, <<1, <<"SS", "">>>>, <<1, <<"SH", "">>>>,
     <<30, <<"SS", "">>>>}

\* a long list: n SS units of 0.30 m, then three thin units SH, SS, SH
LongUnitList(n) ==
    [j \in 1..(n + 3) |->
        IF j <= n THEN Unit(30 * (j - 1), 30, "SS", "")
        ELSE Unit(30 * n + (j - n - 1), 1, IF (j - n) % 2 = 1 THEN "SH" ELSE "SS", "")]

\* the locals of the running call
ScanFrame(max_sequence_length, thick_unit_threshold, i, total_iterations) ==
    [op |-> "detect", max_sequence_length |-> max_sequence_length,
     thick_unit_threshold |-> thick_unit_threshold, i |-> i,
     total_iterations |-> total_iterations]

InitSteps ==
    /\ pc = "grouped"
    /\ samples = <<>>
    /\ rules = DetectRules
    /\ columns = {}
    /\ options = NoOptions
    /\ classified = <<>>
    /\ \/ \E k \in 0..MaxStepUnits :
             \E kinds \in [1..k -> StepUnitKinds] :
                units = Tiling([j \in 1..k |-> kinds[j][1]], [j \in 1..k |-> kinds[j][2]], 0)
       \/ \E excess \in 0..MaxExcess : units = LongUnitList(ScanLimit - 1 + excess)
    /\ params = NoParams
    /\ candidates = <<>>
    /\ selected = {}
    /\ result = <<>>
    /\ remerged = <<>>
    /\ stages = <<>>

\* entry of find_interbedding_candidates: [] at once for at most one unit,
\* otherwise i = 0 (the first unit, 1 here) and total_iterations = 0
ScanStart ==
    /\ pc = "grouped"
    /\ \E p \in DetectParams :
          params' = ScanFrame(p[1], p[2], 1, 0)
    /\ pc' = IF Len(units) <= 1 THEN "detected" ELSE "scanning"
    /\ UNCHANGED <<samples, rules, columns, options, classified, units, candidates, selected,
                   result, remerged, stages>>

\* ScanStep without the advance past a position that yields no candidate
ScanStepStays ==
    /\ pc = "scanning"
    /\ params.i <= Len(units) /\ params.total_iterations < ScanLimit
    /\ LET candidate == FindInterbeddingCandidate(units, params.i, params.max_sequence_length,
                                                  params.thick_unit_threshold, FALSE)
       IN  IF candidate.kind = "candidate"
           THEN /\ candidates' = Append(candidates, candidate)
                /\ params' = [params EXCEPT !.i = @ + Len(candidate.original_sequence),
                                            !.total_iterations = @ + 1]
           ELSE /\ candidates' = candidates
                /\ params' = [params EXCEPT !.total_iterations = @ + 1]
    /\ UNCHANGED <<pc, samples, rules, columns, options, classified, units, selected, result,
                   remerged, stages>>

\* one iteration of the while loop that returns to the loop test
ScanStep ==
    /\ pc = "scanning"
    /\ params.i <= Len(units) /\ params.total_iterations < ScanLimit
    /\ LET candidate == FindInterbeddingCandidate(units, params.i, params.max_sequence_length,
                                                  params.thick_unit_threshold, FALSE)
       IN  IF candidate.kind = "candidate"
           THEN /\ candidates' = Append(candidates, candidate)
                /\ params' = [params EXCEPT !.i = @ + Len(candidate.original_sequence),
                                            !.total_iterations = @ + 1]
           ELSE /\ candidates' = candidates
                /\ params' = [params EXCEPT !.i = @ + 1, !.total_iterations = @ + 1]
    /\ UNCHANGED <<pc, samples, rules, columns, options, classified, units, selected, result,
                   remerged, stages>>

\* one iteration of the while loop that meets 0.0 / 0.0 on Python floats
\* and raises
ScanStepRaises ==
    /\ pc = "scanning"
    /\ params.i <= Len(units) /\ params.total_iterations < ScanLimit
    /\ FindInterbeddingCandidate(units, params.i, params.max_sequence_length,
                                 params.thick_unit_threshold, TRUE).kind = "ZeroDivisionError"
    /\ pc' = "ZeroDivisionError"
    /\ UNCHANGED <<samples, rules, columns, options, classified, units, params, candidates,
                   selected, result, remerged, stages>>

\* the loop test fails: the candidates are returned
ScanExit ==
    /\ pc = "scanning"
    /\ ~(params.i <= Len(units) /\ params.total_iterations < ScanLimit)
    /\ pc' = "detected"
    /\ UNCHANGED <<samples, rules, columns, options, classified, units, params, candidates,
                   selected, result, remerged, stages>>

NextSteps == ScanStart \/ ScanStep \/ ScanStepRaises \/ ScanExit

SpecSteps == InitSteps /\ [][NextSteps]_vars

\* the scan has returned or raised
ScanOver == pc \in {"detected", "ZeroDivisionError"}

\* C24 (detection terminates): every step of a running scan returns,
\* raises, or is an iteration that increases the iteration count by 1 and
\* the scan index by at least 1; the count never exceeds ScanLimit, so the
\* call ends after at most ScanLimit iterations; the loop is left when the
\* index has passed the last unit or after ScanLimit iterations, whichever
\* comes first, and then no candidate starts at or after the unit the
\* index is at, whatever those units hold.
C24_DetectionTerminates ==
    /\ [][pc = "scanning" =>
              \/ ScanOver'
              \/ /\ pc' = "scanning"
                 /\ params'.i >= params.i + 1
                 /\ params'.total_iterations = params.total_iterations + 1]_vars
    /\ [](pc = "scanning" =>
              /\ params.total_iterations <= ScanLimit
              /\ params.total_iterations < params.i)
    /\ []((pc = "detected" /\ Len(units) > 1) =>
              /\ params.i > Len(units) \/ params.total_iterations = ScanLimit
              /\ params.i <= Len(units) => params.total_iterations = ScanLimit
              /\ \A c \in DOMAIN candidates :
                    \E j \in 1..(params.i - 1) :
                       /\ units[j].from_depth = candidates[c].from_depth
                       /\ j + Len(candidates[c].original_sequence) <= params.i)

\* a list of ScanLimit thick units and three thin ones: the scan stops
\* after ScanLimit iterations at the first thin unit, without the candidate
\* the thin units would make
C24_Witness ==
    /\ pc = "detected"
    /\ Len(units) = ScanLimit + 3
    /\ params.total_iterations = ScanLimit
    /\ params.i = ScanLimit + 1
    /\ candidates = <<>>
    /\ FindInterbeddingCandidate(units, ScanLimit + 1, params.max_sequence_length,
                                 params.thick_unit_threshold, FALSE).kind = "candidate"

----------------------------------------------------------------------------
(* Further properties of the merger                                       *)

\* the output units are the blocks the cut positions divide series su
\* into: each begins at a cut with that unit's start and lithology and
\* ends with the last unit before the next cut
IsBlocking(su, cuts, out) ==
    /\ Len(out) = Cardinality(cuts)
    /\ \A k \in DOMAIN out :
          LET a == CHOOSE x \in cuts : Cardinality({y \in cuts : y <= x}) = k
              later == {x \in cuts : x > a}
              b == IF later = {} THEN Len(su) ELSE SetMin(later) - 1
          IN  /\ out[k].from_depth = su[a].from_depth
              /\ SameLithology(out[k], su[a])
              /\ out[k].to_depth = su[b].to_depth

\* C25 (single pass, no backtracking): the output units are consecutive
\* blocks of the sorted input, in order; a unit is extended by the next one
\* only while its thickness so far is < threshold, so a thin unit after a
\* thick unit of its (code, qualifier) begins a block of its own.
C25_SinglePass ==
    (Merged /\ Len(units) > 1) =>
        LET su == SortValues(units, FromDepthColumn(units))
            t == params.threshold
        IN  \E S \in SUBSET (2..Len(su)) :
               LET cuts == {1} \cup S
               IN  /\ IsBlocking(su, cuts, result)
                   /\ \A m \in DOMAIN su \ cuts :
                         LET a == SetMax({x \in cuts : x < m})
                         IN  su[m - 1].to_depth - su[a].from_depth < t
                   /\ \A a \in cuts :
                         (a < Len(su) /\ su[a].thickness >= t) => (a + 1) \in cuts

\* SS of 0.06 m followed by SS of 0.01 m, merged at threshold 0.05: the
\* thin unit is not absorbed and stays in the output
C25_Witness ==
    /\ pc = "merged"
    /\ params.threshold = DEFAULT_MERGE_THRESHOLD
    /\ units = <<Unit(0, 6, "SS", ""), Unit(6, 1, "SS", "")>>
    /\ result = units
    /\ result[2].thickness < params.threshold

----------------------------------------------------------------------------
(* Pipeline runs on readings the two classification policies tell apart   *)

MaxModeSamples == 2

InitMode ==
    /\ pc = "start"
    /\ samples \in SampleSeries(MaxModeSamples)
    /\ rules = PipelineRules
    /\ columns = {"gamma", "density"}
    /\ options \in PipelineOptions
    /\ classified = <<>>
    /\ units = <<>>
    /\ params = NoParams
    /\ candidates = <<>>
    /\ selected = {}
    /\ result = <<>>
    /\ remerged = <<>>
    /\ stages = <<>>

SpecMode == InitMode /\ [][NextPipeline]_vars

\* C26 (mode selection): a run classifies with the policy of its configured
\* mode: classify_rows_simple when the mode is Simple, classify_rows when
\* it is Standard.
C26_AsStated ==
    pc # "start" =>
        classified = IF options.analysis_method = "simple"
                     THEN ClassifyRowsSimple(samples, rules, columns)
                     ELSE ClassifyRows(samples, rules, columns, options.use_researched_defaults,
                                       options.use_fallback_classification)

\* C29 (merge postcondition): in the output of a merge of more than one
\* unit no unit of thickness < threshold is immediately followed by a unit
\* of its (code, qualifier), and the output has at most as many units as
\* the input.
C29_MergePostcondition ==
    (Merged /\ Len(units) > 1) =>
        /\ Len(result) <= Len(units)
        /\ \A k \in 1..(Len(result) - 1) :
              result[k].thickness < params.threshold => ~SameLithology(result[k], result[k + 1])

\* three SS units merged at threshold 0.05: the first two become a unit
\* of 0.06 m, which absorbs no more, and the thin third unit stays behind it
C29_Witness ==
    /\ pc = "merged"
    /\ params.threshold = DEFAULT_MERGE_THRESHOLD
    /\ units = <<Unit(0, 3, "SS", ""), Unit(3, 3, "SS", ""), Unit(6, 1, "SS", "")>>
    /\ result = <<Unit(0, 6, "SS", ""), Unit(6, 1, "SS", "")>>

\* the thickness the units j .. last of a code have together
RECURSIVE RunCodeThickness(_, _, _, _)
RunCodeThickness(us, code, j, last) ==
    IF j > last THEN 0
    ELSE (IF us[j].LITHOLOGY_CODE = code THEN us[j].thickness ELSE 0)
         + RunCodeThickness(us, code, j + 1, last)

\* the number of components the run start .. start + n - 1 keeps after the
\* 5 % filter: the codes with a share of the run's thickness of 5 % or more
\* (the dominant code is one of them), every code when the run has no
\* thickness
RetainedComponents(us, start, n) ==
    LET Codes == {us[j].LITHOLOGY_CODE : j \in start..(start + n - 1)}
        total == SpanThickness(us, start, n)
    IN  Cardinality({code \in Codes :
                        total = 0 \/ RunCodeThickness(us, code, start, start + n - 1) * 100 >= 5 * total})

\* the run start .. start + n - 1 passes the tests of a candidate
Qualifies(us, start, n) ==
    /\ n >= 3
    /\ SpanThickness(us, start, n) < 20 * n
    /\ RetainedComponents(us, start, n) >= 2

\* C30 (only the longest run is tested): at every scan position the
\* detector's answer is decided by the longest extractable run alone: a
\* candidate is that whole run, and when that run has a mean thickness of
\* 0.2 m or more, or fewer than 2 components after the 5 % filter, the
\* position yields no candidate, whether or not a shorter prefix of 3 or
\* more units passes the tests; every candidate returned by a scan is the
\* longest run of the position it starts at.
C30_OnlyLongestRun ==
    Detected =>
        LET msl == params.max_sequence_length
            tut == params.thick_unit_threshold
        IN  /\ \A p \in 1..Len(units) :
                 LET n == ExtractedLength(units, p, msl, tut)
                     found == FindInterbeddingCandidate(units, p, msl, tut, FALSE)
                 IN  /\ found.kind = "candidate"
                           => found.original_sequence = SubSeq(units, p, p + n - 1)
                     /\ (found.kind = "candidate") = Qualifies(units, p, n)
                     /\ ~Qualifies(units, p, n) => found = NoCandidate
            /\ \A c \in DOMAIN candidates :
                 LET sequence == candidates[c].original_sequence
                 IN  \E p \in 1..Len(units) :
                        /\ Len(sequence) = ExtractedLength(units, p, msl, tut)
                        /\ sequence = SubSeq(units, p, p + Len(sequence) - 1)

\* four alternating units, none thick: the first three have a mean below
\* 0.2 m and two components, the four together a mean of 0.2 m, and the scan
\* returns nothing
C30_Witness ==
    /\ pc = "detected"
    /\ Len(units) = 4
    /\ ExtractedLength(units, 1, params.max_sequence_length, params.thick_unit_threshold) = 4
    /\ Qualifies(units, 1, 3)
    /\ SpanThickness(units, 1, 4) >= 20 * 4
    /\ candidates = <<>>

----------------------------------------------------------------------------
(* Further properties of the grouper                                      *)

RECURSIVE SumThickness(_)
SumThickness(us) == IF us = <<>> THEN 0 ELSE Head(us).thickness + SumThickness(Tail(us))

\* the depths of the samples of a frame
Depths(df) == {df[i].depth : i \in DOMAIN df}

----------------------------------------------------------------------------
(* Further properties of the detector                                     *)

====
